---- MODULE Spec2Model ----
(***************************************************************************)
(* Chart history store (client/src/stores/chartHistoryStore.ts): the       *)
(* per-query undo/redo log of visualization specifications and the list of *)
(* saved chart templates.                                                  *)
(*                                                                         *)
(* A VisualizationSpec is an opaque value here: the store never looks      *)
(* inside one, it only stores and returns it.  A snapshot's id and         *)
(* timestamp are written once and never read by any store operation, so a  *)
(* snapshot is modelled by the two fields that are read or compared:       *)
(* visualizationSpec and description.  A template's id is read by          *)
(* deleteTemplate and applyTemplate and is modelled.                       *)
(***************************************************************************)
EXTENDS Integers, Sequences, FiniteSets, TLC

VARIABLES
    histories,       \* Record<queryId, QueryChartHistory>
    templates,       \* ChartTemplate[]
    nextTemplateId,  \* the id generateTemplateId() returns next
    deleted,         \* templates removed by deleteTemplate so far
    call,            \* the store action called last, its arguments and what
                     \* it found: see HistoryCall and TemplateCall
    ret,             \* what that call returned
    currentQuery,    \* useQueryStore: the query on display, or NoQuery
    chats,           \* chat requests in flight, each with the values its
                     \* response handler closed over
    isModifyingChart,\* AnalyticsPage: useState(false)
    input,           \* the arguments of the pure function under study
    output           \* its result, once it has been applied

storeVars == <<histories, templates, nextTemplateId, deleted>>

pageVars == <<currentQuery, chats, isModifyingChart>>

fnVars == <<input, output>>

vars == <<histories, templates, nextTemplateId, deleted, call, ret,
          currentQuery, chats, isModifyingChart, input, output>>

----------------------------------------------------------------------------
(* Inputs and bounds *)

\* queryIds the callers pass
QueryIds == {"q1", "q2"}

\* the VisualizationSpec values the callers pass
Specs == {"A", "B"}

\* description passed to addSnapshot; initializeHistory writes its own
EditDescription == "edit"
OriginalDescription == "Original chart"

\* JavaScript null and undefined (a void function's result)
Null == "null"
Undefined == "undefined"

\* maxSnapshots: 10
maxSnapshots == 10

\* .slice(-20) in saveTemplate
maxTemplates == 20

\* addSnapshot and initializeHistory on a queryId are explored only while
\* the histories of the other queryIds hold at most this many snapshots
MaxOtherSnapshots == 0

\* number of saveTemplate calls explored after the initial template list
MaxSaves == 2

\* number of deleteTemplate calls explored
MaxDeletes == 1

\* length of the persisted template list the template exploration starts from
SeedTemplates == 19

\* chat requests in flight at a time on the Analytics page
MaxChats == 2

\* snapshots held by all histories together while the page is explored
MaxPageSnapshots == 3

\* snapshots held by all histories together while several histories are
\* explored side by side
MaxStoreSnapshots == 4

----------------------------------------------------------------------------
(* Array helpers, as JavaScript computes them *)

\* Array.prototype.slice(0, end) for 0 <= end
SliceTo(s, end) == SubSeq(s, 1, IF end > Len(s) THEN Len(s) ELSE end)

\* Array.prototype.slice(-n) for n > 0: the last n elements (all if fewer)
SliceLast(s, n) == IF n >= Len(s) THEN s ELSE SubSeq(s, Len(s) - n + 1, Len(s))

\* Array.prototype.filter
RECURSIVE FilterOutId(_, _)
FilterOutId(s, id) ==
    IF s = <<>> THEN <<>>
    ELSE IF Head(s).id # id THEN <<Head(s)>> \o FilterOutId(Tail(s), id)
         ELSE FilterOutId(Tail(s), id)

----------------------------------------------------------------------------
(* History values *)

Snapshot(spec, description) ==
    [visualizationSpec |-> spec, description |-> description]

HasHistory(h, q) == q \in DOMAIN h

\* the history object initializeHistory stores
NewHistory(q, originalSpec) ==
    [queryId |-> q,
     originalSpec |-> originalSpec,
     snapshots |-> <<Snapshot(originalSpec, OriginalDescription)>>,
     currentIndex |-> 0]

\* a variant without the spread of state.histories: { [queryId]: value }
PutAlone(h, q, value) ==
    [k \in {q} |-> value]

\* { ...state.histories, [queryId]: value }
Put(h, q, value) ==
    [k \in DOMAIN h \cup {q} |-> IF k = q THEN value ELSE h[k]]

\* const { [queryId]: _, ...rest } = state.histories
Remove(h, q) == [k \in DOMAIN h \ {q} |-> h[k]]

\* snapshots[i] with JavaScript's 0-based index
At(snapshots, i) == snapshots[i + 1]

----------------------------------------------------------------------------
(* History operations: the new histories map and the returned value *)

\* a variant that reinitializes an existing history
initializeHistoryStateAlways(h, q, originalSpec) ==
    Put(h, q, NewHistory(q, originalSpec))

\* initializeHistory: `if (existing) return;` else store a fresh history
initializeHistoryState(h, q, originalSpec) ==
    IF HasHistory(h, q) THEN h ELSE Put(h, q, NewHistory(q, originalSpec))

\* a variant that pushes without discarding the redo branch
newSnapshotsNoDiscard(hist, spec, description) ==
    Append(hist.snapshots, Snapshot(spec, description))

\* addSnapshot: slice(0, currentIndex + 1) then push
newSnapshots(hist, spec, description) ==
    Append(SliceTo(hist.snapshots, hist.currentIndex + 1),
           Snapshot(spec, description))

\* a variant that keeps the most recent maxSnapshots and not the original
trimmedSnapshotsDropOriginal(s) ==
    IF Len(s) > maxSnapshots THEN SliceLast(s, maxSnapshots) ELSE s

\* a variant that keeps the oldest maxSnapshots: slice(0, maxSnapshots)
trimmedSnapshotsKeepOldest(s) ==
    IF Len(s) > maxSnapshots THEN SliceTo(s, maxSnapshots) ELSE s

\* addSnapshot: [newSnapshots[0], ...newSnapshots.slice(-(maxSnapshots - 1))]
trimmedSnapshots(s) ==
    IF Len(s) > maxSnapshots
    THEN <<At(s, 0)>> \o SliceLast(s, maxSnapshots - 1)
    ELSE s

\* a variant that takes currentIndex from the list before it is trimmed
addSnapshotStateIndexBeforeTrim(h, q, spec, description) ==
    IF ~HasHistory(h, q)
    THEN Put(h, q, NewHistory(q, spec))
    ELSE LET pushed == Append(SliceTo(h[q].snapshots, h[q].currentIndex + 1),
                              Snapshot(spec, description))
             trimmed == IF Len(pushed) > maxSnapshots
                        THEN <<At(pushed, 0)>> \o SliceLast(pushed, maxSnapshots - 1)
                        ELSE pushed
         IN  Put(h, q, [h[q] EXCEPT !.snapshots = trimmed,
                                    !.currentIndex = Len(pushed) - 1])

\* a variant that returns without creating the missing history
addSnapshotStateNoCreate(h, q, spec, description) ==
    IF ~HasHistory(h, q)
    THEN h
    ELSE LET pushed == Append(SliceTo(h[q].snapshots, h[q].currentIndex + 1),
                              Snapshot(spec, description))
             trimmed == IF Len(pushed) > maxSnapshots
                        THEN <<At(pushed, 0)>> \o SliceLast(pushed, maxSnapshots - 1)
                        ELSE pushed
         IN  Put(h, q, [h[q] EXCEPT !.snapshots = trimmed,
                                    !.currentIndex = Len(trimmed) - 1])

addSnapshotState(h, q, spec, description) ==
    IF ~HasHistory(h, q)
    THEN initializeHistoryState(h, q, spec)
    ELSE LET trimmed == trimmedSnapshots(newSnapshots(h[q], spec, description))
         IN  Put(h, q, [h[q] EXCEPT !.snapshots = trimmed,
                                    !.currentIndex = Len(trimmed) - 1])

\* undo: `if (!history || history.currentIndex <= 0) return null;`
undoEnabled(h, q) == HasHistory(h, q) /\ ~(h[q].currentIndex <= 0)

\* a variant that steps back to the original
undoStateToOriginal(h, q) ==
    IF undoEnabled(h, q)
    THEN Put(h, q, [h[q] EXCEPT !.currentIndex = 0])
    ELSE h

undoState(h, q) ==
    IF undoEnabled(h, q)
    THEN Put(h, q, [h[q] EXCEPT !.currentIndex = h[q].currentIndex - 1])
    ELSE h

\* a variant that returns the spec of the snapshot it steps away from
undoResultStale(h, q) ==
    IF HasHistory(h, q) /\ ~(h[q].currentIndex <= 0)
    THEN At(h[q].snapshots, h[q].currentIndex).visualizationSpec
    ELSE Null

undoResult(h, q) ==
    IF undoEnabled(h, q)
    THEN At(h[q].snapshots, h[q].currentIndex - 1).visualizationSpec
    ELSE Null

\* redo: `if (!history || history.currentIndex >= history.snapshots.length - 1)`
redoEnabled(h, q) ==
    HasHistory(h, q) /\ ~(h[q].currentIndex >= Len(h[q].snapshots) - 1)

redoState(h, q) ==
    IF redoEnabled(h, q)
    THEN Put(h, q, [h[q] EXCEPT !.currentIndex = h[q].currentIndex + 1])
    ELSE h

\* a variant that returns the spec of the snapshot it steps away from
redoResultStale(h, q) ==
    IF HasHistory(h, q) /\ ~(h[q].currentIndex >= Len(h[q].snapshots) - 1)
    THEN At(h[q].snapshots, h[q].currentIndex).visualizationSpec
    ELSE Null

redoResult(h, q) ==
    IF redoEnabled(h, q)
    THEN At(h[q].snapshots, h[q].currentIndex + 1).visualizationSpec
    ELSE Null

\* resetToOriginal: currentIndex: 0, return history.originalSpec
resetToOriginalState(h, q) ==
    IF HasHistory(h, q) THEN Put(h, q, [h[q] EXCEPT !.currentIndex = 0]) ELSE h

\* a variant that returns the spec that was current before the reset
resetToOriginalResultCurrent(h, q) ==
    IF HasHistory(h, q)
    THEN At(h[q].snapshots, h[q].currentIndex).visualizationSpec
    ELSE Null

resetToOriginalResult(h, q) ==
    IF HasHistory(h, q) THEN h[q].originalSpec ELSE Null

\* the getters: they call get() only
canUndo(h, q) == IF HasHistory(h, q) THEN h[q].currentIndex > 0 ELSE FALSE

canRedo(h, q) ==
    IF HasHistory(h, q)
    THEN h[q].currentIndex < Len(h[q].snapshots) - 1
    ELSE FALSE

\* a variant that adds the display offset to the default as well
getCurrentIndexOffsetDefault(h, q) ==
    (IF HasHistory(h, q) THEN h[q].currentIndex ELSE 0) + 1

\* 1-indexed for display
getCurrentIndex(h, q) == IF HasHistory(h, q) THEN h[q].currentIndex + 1 ELSE 0

getTotalSnapshots(h, q) == IF HasHistory(h, q) THEN Len(h[q].snapshots) ELSE 0

getOriginalSpec(h, q) == IF HasHistory(h, q) THEN h[q].originalSpec ELSE Null

----------------------------------------------------------------------------
(* Template operations *)

Template(id, spec) == [id |-> id, visualizationSpec |-> spec]

\* a variant that keeps the oldest maxTemplates: slice(0, 20)
saveTemplateStateKeepOldest(t, newTemplate) ==
    SliceTo(Append(t, newTemplate), maxTemplates)

\* [...state.templates, newTemplate].slice(-20)
saveTemplateState(t, newTemplate) == SliceLast(Append(t, newTemplate), maxTemplates)

\* state.templates.filter((t) => t.id !== templateId)
deleteTemplateState(t, id) == FilterOutId(t, id)

TemplateIds(t) == {t[i].id : i \in 1..Len(t)}

\* a variant whose find() accepts the first template whatever its id
applyTemplateResultFirst(t, id) ==
    IF t # <<>> THEN t[1].visualizationSpec ELSE Null

\* get().templates.find((t) => t.id === templateId): the first match
applyTemplateResult(t, id) ==
    IF id \in TemplateIds(t)
    THEN LET i == CHOOSE j \in 1..Len(t) :
                      /\ t[j].id = id
                      /\ \A k \in 1..(j - 1) : t[k].id # id
         IN  t[i].visualizationSpec
    ELSE Null

\* generateTemplateId(): `template-${Date.now()}-${random}`, a fresh id per
\* call; the n-th call is given the id n
generateTemplateId(n) == n

----------------------------------------------------------------------------
(* Actions of the history store *)

RECURSIVE SumLen(_, _)
SumLen(h, qs) ==
    IF qs = {} THEN 0
    ELSE LET k == CHOOSE x \in qs : TRUE
         IN  Len(h[k].snapshots) + SumLen(h, qs \ {k})

OtherSnapshots(h, q) == SumLen(h, DOMAIN h \ {q})

WithinBound(q) == OtherSnapshots(histories, q) <= MaxOtherSnapshots

NoArg == "-"

\* a call of a history action on queryId q (with spec, where it takes one),
\* and the history the call found: whether there was one, its currentIndex
\* and snapshots.length
HistoryCall(name, q, spec) ==
    [op |-> name, queryId |-> q, spec |-> spec, templateId |-> -1,
     had |-> HasHistory(histories, q),
     index |-> IF HasHistory(histories, q) THEN histories[q].currentIndex ELSE -1,
     length |-> IF HasHistory(histories, q) THEN Len(histories[q].snapshots) ELSE 0]

\* a call of a template action, and the list it found: whether it held the
\* id, and templates.length
TemplateCall(name, id, spec) ==
    [op |-> name, queryId |-> NoArg, spec |-> spec, templateId |-> id,
     had |-> id \in TemplateIds(templates),
     index |-> -1,
     length |-> Len(templates)]

\* currentQuery: null
NoQuery == [queryId |-> NoArg, visualizationSpec |-> NoArg]

\* no pure function is under study
NoValue == <<"none">>

\* the page and the function variables of a store on its own
Detached ==
    /\ currentQuery = NoQuery
    /\ chats = {}
    /\ isModifyingChart = FALSE
    /\ input = NoValue
    /\ output = NoValue

\* no call yet
NoCall ==
    [op |-> "create", queryId |-> NoArg, spec |-> NoArg, templateId |-> -1,
     had |-> FALSE, index |-> -1, length |-> 0]

initializeHistory(q, originalSpec) ==
    /\ WithinBound(q)
    /\ histories' = initializeHistoryState(histories, q, originalSpec)
    /\ call' = HistoryCall("initializeHistory", q, originalSpec)
    /\ ret' = Undefined
    /\ UNCHANGED <<templates, nextTemplateId, deleted>>
    /\ UNCHANGED <<pageVars, fnVars>>

addSnapshot(q, spec, description) ==
    /\ WithinBound(q)
    /\ histories' = addSnapshotState(histories, q, spec, description)
    /\ call' = HistoryCall("addSnapshot", q, spec)
    /\ ret' = Undefined
    /\ UNCHANGED <<templates, nextTemplateId, deleted>>
    /\ UNCHANGED <<pageVars, fnVars>>

undo(q) ==
    /\ histories' = undoState(histories, q)
    /\ call' = HistoryCall("undo", q, NoArg)
    /\ ret' = undoResult(histories, q)
    /\ UNCHANGED <<templates, nextTemplateId, deleted>>
    /\ UNCHANGED <<pageVars, fnVars>>

redo(q) ==
    /\ histories' = redoState(histories, q)
    /\ call' = HistoryCall("redo", q, NoArg)
    /\ ret' = redoResult(histories, q)
    /\ UNCHANGED <<templates, nextTemplateId, deleted>>
    /\ UNCHANGED <<pageVars, fnVars>>

resetToOriginal(q) ==
    /\ histories' = resetToOriginalState(histories, q)
    /\ call' = HistoryCall("resetToOriginal", q, NoArg)
    /\ ret' = resetToOriginalResult(histories, q)
    /\ UNCHANGED <<templates, nextTemplateId, deleted>>
    /\ UNCHANGED <<pageVars, fnVars>>

clearHistory(q) ==
    /\ histories' = Remove(histories, q)
    /\ call' = HistoryCall("clearHistory", q, NoArg)
    /\ ret' = Undefined
    /\ UNCHANGED <<templates, nextTemplateId, deleted>>
    /\ UNCHANGED <<pageVars, fnVars>>

clearAllHistories ==
    /\ histories' = <<>>
    /\ call' = [NoCall EXCEPT !.op = "clearAllHistories"]
    /\ ret' = Undefined
    /\ UNCHANGED <<templates, nextTemplateId, deleted>>
    /\ UNCHANGED <<pageVars, fnVars>>

\* histories: {}, templates: []
Init ==
    /\ histories = <<>>
    /\ templates = <<>>
    /\ nextTemplateId = 1
    /\ deleted = 0
    /\ call = NoCall
    /\ ret = Undefined
    /\ Detached

Next ==
    \/ \E q \in QueryIds, s \in Specs : initializeHistory(q, s)
    \/ \E q \in QueryIds, s \in Specs : addSnapshot(q, s, EditDescription)
    \/ \E q \in QueryIds : undo(q)
    \/ \E q \in QueryIds : redo(q)
    \/ \E q \in QueryIds : resetToOriginal(q)
    \/ \E q \in QueryIds : clearHistory(q)
    \/ clearAllHistories

Spec == Init /\ [][Next]_vars

----------------------------------------------------------------------------
(* Actions of the template list *)

saveTemplate(spec) ==
    /\ nextTemplateId <= SeedTemplates + MaxSaves
    /\ LET newTemplate == Template(generateTemplateId(nextTemplateId), spec)
       IN  /\ templates' = saveTemplateState(templates, newTemplate)
           /\ ret' = newTemplate
    /\ nextTemplateId' = nextTemplateId + 1
    /\ call' = TemplateCall("saveTemplate", generateTemplateId(nextTemplateId), spec)
    /\ UNCHANGED <<histories, deleted>>
    /\ UNCHANGED <<pageVars, fnVars>>

deleteTemplate(id) ==
    /\ deleted < MaxDeletes
    /\ templates' = deleteTemplateState(templates, id)
    /\ deleted' = deleted + (Len(templates) - Len(templates'))
    /\ call' = TemplateCall("deleteTemplate", id, NoArg)
    /\ ret' = Undefined
    /\ UNCHANGED <<histories, nextTemplateId>>
    /\ UNCHANGED <<pageVars, fnVars>>

applyTemplate(id) ==
    /\ call' = TemplateCall("applyTemplate", id, NoArg)
    /\ ret' = applyTemplateResult(templates, id)
    /\ UNCHANGED <<histories, templates, nextTemplateId, deleted>>
    /\ UNCHANGED <<pageVars, fnVars>>

\* a template id no saveTemplate call was given
UnknownTemplateId == generateTemplateId(0)

\* the store after n saveTemplate calls on an empty list
RECURSIVE SavedTemplates(_)
SavedTemplates(n) ==
    IF n = 0 THEN <<>>
    ELSE saveTemplateState(SavedTemplates(n - 1),
                           Template(generateTemplateId(n),
                                    IF n % 2 = 1 THEN "A" ELSE "B"))

\* the store rehydrated from "chart-history-storage": SeedTemplates templates
\* saved earlier and one history with an edit
InitRehydrated ==
    /\ templates = SavedTemplates(SeedTemplates)
    /\ nextTemplateId = SeedTemplates + 1
    /\ histories = addSnapshotState(initializeHistoryState(<<>>, "q1", "A"),
                                    "q1", "B", EditDescription)
    /\ deleted = 0
    /\ call = NoCall
    /\ ret = Undefined
    /\ Detached

NextTemplates ==
    \/ \E s \in Specs : saveTemplate(s)
    \/ \E id \in TemplateIds(templates) \cup {UnknownTemplateId} : deleteTemplate(id)
    \/ \E id \in TemplateIds(templates) \cup {UnknownTemplateId} : applyTemplate(id)

SpecTemplates == InitRehydrated /\ [][NextTemplates]_vars

----------------------------------------------------------------------------
(* The Analytics page: the handlers that tie the query store, the chat      *)
(* service and the history store together.  conversationHistory and the    *)
(* fields of a query other than queryId and visualizationSpec are carried   *)
(* along by the handlers and never read by them; they are left out.         *)

\* an AskQuestionResponse: its queryId and its optional visualizationSpec
Query(q, spec) == [queryId |-> q, visualizationSpec |-> spec]

\* visualizationSpec?: a spec or none
OptionalSpecs == Specs \cup {NoArg}

\* useEffect(() => { if (currentQuery?.queryId && currentQuery?.visualizationSpec)
\*   initializeHistory(...) }), run after a render that changed currentQuery
initializeHistoryEffect(h, query) ==
    IF query.queryId # NoArg /\ query.visualizationSpec # NoArg
    THEN initializeHistoryState(h, query.queryId, query.visualizationSpec)
    ELSE h

\* a chat request in flight: which handler sent it, the currentQuery its
\* onSuccess closure holds, and whether the page's one useChatWithClaude()
\* mutation observer still delivers its result to the callbacks given to
\* mutate
Chat(kind, query, observed) ==
    [kind |-> kind, query |-> query, observed |-> observed]

\* chatWithClaude(request, callbacks) is the observer's mutate: the observer
\* takes the new callbacks and stops observing the request it sent before,
\* which still runs to its end
superseded(pending) == {[c EXCEPT !.observed = FALSE] : c \in pending}

\* queryId of a response: the ids the server hands out are new ones, so none
\* that the page still holds anything for
freshQueryId(q) ==
    /\ q # currentQuery.queryId
    /\ q \notin DOMAIN histories
    /\ \A c \in chats : c.query.queryId # q

\* what a page handler was called with
PageCall(name, q, spec) ==
    [NoCall EXCEPT !.op = name, !.queryId = q, !.spec = spec]

TotalSnapshots(h) == SumLen(h, DOMAIN h)

\* handleQueryComplete: setCurrentQuery(result), then the effect
handleQueryComplete(result) ==
    /\ freshQueryId(result.queryId)
    /\ TotalSnapshots(histories) < MaxPageSnapshots
    /\ currentQuery' = result
    /\ histories' = initializeHistoryEffect(histories, result)
    /\ call' = PageCall("handleQueryComplete", result.queryId, result.visualizationSpec)
    /\ ret' = Undefined
    /\ UNCHANGED <<templates, nextTemplateId, deleted, chats, isModifyingChart, fnVars>>

\* handleUndo, handleRedo, handleResetChart:
\*   const spec = undo(currentQuery.queryId);
\*   if (spec) setCurrentQuery({ ...currentQuery, visualizationSpec: spec })
applyReturned(query, spec) ==
    IF spec # Null THEN [query EXCEPT !.visualizationSpec = spec] ELSE query

handleUndo ==
    /\ currentQuery.queryId # NoArg
    /\ LET q == currentQuery.queryId
       IN  /\ histories' = undoState(histories, q)
           /\ ret' = undoResult(histories, q)
           /\ currentQuery' = applyReturned(currentQuery, undoResult(histories, q))
           /\ call' = PageCall("handleUndo", q, NoArg)
    /\ UNCHANGED <<templates, nextTemplateId, deleted, chats, isModifyingChart, fnVars>>

handleRedo ==
    /\ currentQuery.queryId # NoArg
    /\ LET q == currentQuery.queryId
       IN  /\ histories' = redoState(histories, q)
           /\ ret' = redoResult(histories, q)
           /\ currentQuery' = applyReturned(currentQuery, redoResult(histories, q))
           /\ call' = PageCall("handleRedo", q, NoArg)
    /\ UNCHANGED <<templates, nextTemplateId, deleted, chats, isModifyingChart, fnVars>>

handleResetChart ==
    /\ currentQuery.queryId # NoArg
    /\ LET q == currentQuery.queryId
       IN  /\ histories' = resetToOriginalState(histories, q)
           /\ ret' = resetToOriginalResult(histories, q)
           /\ currentQuery' = applyReturned(currentQuery, resetToOriginalResult(histories, q))
           /\ call' = PageCall("handleResetChart", q, NoArg)
    /\ UNCHANGED <<templates, nextTemplateId, deleted, chats, isModifyingChart, fnVars>>

\* handleEditChart: setIsModifyingChart(true); chatWithClaude(chatRequest, ...)
handleEditChart ==
    /\ currentQuery # NoQuery
    /\ Cardinality(chats) < MaxChats
    /\ isModifyingChart' = TRUE
    /\ chats' = superseded(chats) \cup {Chat("edit", currentQuery, TRUE)}
    /\ call' = PageCall("handleEditChart", currentQuery.queryId, NoArg)
    /\ ret' = Undefined
    /\ UNCHANGED <<storeVars, currentQuery, fnVars>>

\* handleFollowupClick: chatWithClaude(chatRequest, { onSuccess })
handleFollowupClick ==
    /\ currentQuery # NoQuery
    /\ Cardinality(chats) < MaxChats
    /\ chats' = superseded(chats) \cup {Chat("followup", currentQuery, TRUE)}
    /\ call' = PageCall("handleFollowupClick", currentQuery.queryId, NoArg)
    /\ ret' = Undefined
    /\ UNCHANGED <<storeVars, currentQuery, isModifyingChart, fnVars>>

\* handleEditChart, onSuccess: the closure's currentQuery is chat.query
editChartSuccess(chat, responseSpec) ==
    /\ chat \in chats
    /\ chat.kind = "edit"
    /\ chat.observed
    /\ TotalSnapshots(histories) < MaxPageSnapshots
    /\ chats' = chats \ {chat}
    /\ isModifyingChart' = FALSE
    /\ IF responseSpec # NoArg
       THEN LET updatedQuery == [chat.query EXCEPT !.visualizationSpec = responseSpec]
                added == addSnapshotState(histories, chat.query.queryId,
                                          responseSpec, EditDescription)
            IN  /\ histories' = initializeHistoryEffect(added, updatedQuery)
                /\ currentQuery' = updatedQuery
       ELSE UNCHANGED <<histories, currentQuery>>
    /\ call' = PageCall("editChartSuccess", chat.query.queryId, responseSpec)
    /\ ret' = Undefined
    /\ UNCHANGED <<templates, nextTemplateId, deleted, fnVars>>

\* handleEditChart, onError
editChartError(chat) ==
    /\ chat \in chats
    /\ chat.kind = "edit"
    /\ chat.observed
    /\ chats' = chats \ {chat}
    /\ isModifyingChart' = FALSE
    /\ call' = PageCall("editChartError", chat.query.queryId, NoArg)
    /\ ret' = Undefined
    /\ UNCHANGED <<storeVars, currentQuery, fnVars>>

\* handleFollowupClick, onSuccess: setCurrentQuery(updatedQuery), then the
\* effect; addSnapshot is not called
followupSuccess(chat, responseSpec) ==
    /\ chat \in chats
    /\ chat.kind = "followup"
    /\ chat.observed
    /\ TotalSnapshots(histories) < MaxPageSnapshots
    /\ chats' = chats \ {chat}
    /\ LET updatedQuery ==
               IF responseSpec # NoArg
               THEN [chat.query EXCEPT !.visualizationSpec = responseSpec]
               ELSE chat.query
       IN  /\ currentQuery' = updatedQuery
           /\ histories' = initializeHistoryEffect(histories, updatedQuery)
    /\ call' = PageCall("followupSuccess", chat.query.queryId, responseSpec)
    /\ ret' = Undefined
    /\ UNCHANGED <<templates, nextTemplateId, deleted, isModifyingChart, fnVars>>

\* handleFollowupClick passes no onError: a failed request just ends
followupError(chat) ==
    /\ chat \in chats
    /\ chat.kind = "followup"
    /\ chat.observed
    /\ chats' = chats \ {chat}
    /\ call' = PageCall("followupError", chat.query.queryId, NoArg)
    /\ ret' = Undefined
    /\ UNCHANGED <<storeVars, currentQuery, isModifyingChart, fnVars>>

\* a request the observer no longer observes ends, with a response or an
\* error: none of the callbacks given to its mutate runs
chatSettledUnobserved(chat) ==
    /\ chat \in chats
    /\ ~chat.observed
    /\ chats' = chats \ {chat}
    /\ call' = PageCall("chatSettledUnobserved", chat.query.queryId, NoArg)
    /\ ret' = Undefined
    /\ UNCHANGED <<storeVars, currentQuery, isModifyingChart, fnVars>>

NextPage ==
    \/ \E q \in QueryIds, s \in OptionalSpecs : handleQueryComplete(Query(q, s))
    \/ handleUndo
    \/ handleRedo
    \/ handleResetChart
    \/ handleEditChart
    \/ handleFollowupClick
    \/ \E c \in chats, s \in OptionalSpecs : editChartSuccess(c, s)
    \/ \E c \in chats : editChartError(c)
    \/ \E c \in chats, s \in OptionalSpecs : followupSuccess(c, s)
    \/ \E c \in chats : followupError(c)
    \/ \E c \in chats : chatSettledUnobserved(c)

SpecPage == Init /\ [][NextPage]_vars

\* the history actions on a store rehydrated with templates in it
SpecRehydrated == InitRehydrated /\ [][Next]_vars

\* initializeHistory and addSnapshot with histories of other queryIds in
\* the store
initializeHistoryBeside(q, originalSpec) ==
    /\ TotalSnapshots(histories) < MaxStoreSnapshots
    /\ histories' = initializeHistoryState(histories, q, originalSpec)
    /\ call' = HistoryCall("initializeHistory", q, originalSpec)
    /\ ret' = Undefined
    /\ UNCHANGED <<templates, nextTemplateId, deleted>>
    /\ UNCHANGED <<pageVars, fnVars>>

addSnapshotBeside(q, spec, description) ==
    /\ TotalSnapshots(histories) < MaxStoreSnapshots
    /\ histories' = addSnapshotState(histories, q, spec, description)
    /\ call' = HistoryCall("addSnapshot", q, spec)
    /\ ret' = Undefined
    /\ UNCHANGED <<templates, nextTemplateId, deleted>>
    /\ UNCHANGED <<pageVars, fnVars>>

NextQueries ==
    \/ \E q \in QueryIds, s \in Specs : initializeHistoryBeside(q, s)
    \/ \E q \in QueryIds, s \in Specs : addSnapshotBeside(q, s, EditDescription)
    \/ \E q \in QueryIds : undo(q)
    \/ \E q \in QueryIds : redo(q)
    \/ \E q \in QueryIds : resetToOriginal(q)
    \/ \E q \in QueryIds : clearHistory(q)
    \/ clearAllHistories

\* the history actions on a rehydrated store that holds the histories of
\* several queries at a time
SpecQueries == InitRehydrated /\ [][NextQueries]_vars

----------------------------------------------------------------------------
(* Properties of the history store *)

SpecOf(snapshots) ==
    [i \in 1..Len(snapshots) |-> snapshots[i].visualizationSpec]

\* C1. Branch discard: addSnapshot(q, spec, d) on an existing history with
\* snapshots s and currentIndex i leaves, when s[0..i] plus the new snapshot
\* fits the retention bound, exactly s[0..i] followed by the new snapshot;
\* in every case the new snapshot is last, currentIndex points at it and
\* redo is no longer possible.
C1_BranchDiscard ==
    [][\A q \in QueryIds, s \in Specs :
         (HasHistory(histories, q) /\ addSnapshot(q, s, EditDescription)) =>
            LET old == histories[q]
                new == histories'[q]
                expected == SubSeq(old.snapshots, 1, old.currentIndex + 1)
                              \o <<Snapshot(s, EditDescription)>>
            IN  /\ Len(expected) <= maxSnapshots => new.snapshots = expected
                /\ new.snapshots[Len(new.snapshots)] = Snapshot(s, EditDescription)
                /\ new.currentIndex = Len(new.snapshots) - 1
                /\ redoResult(histories', q) = Null
                /\ redoState(histories', q) = histories']_vars

\* an addSnapshot after a rewind has dropped the snapshots after the index
C1_Witness ==
    /\ call.op = "addSnapshot"
    /\ call.had
    /\ call.index = 1
    /\ call.length = 3
    /\ HasHistory(histories, call.queryId)
    /\ Len(histories[call.queryId].snapshots) = 3
    /\ histories[call.queryId].currentIndex = 2

C2_Bounded ==
    \A q \in DOMAIN histories :
        /\ Len(histories[q].snapshots) <= maxSnapshots
        /\ At(histories[q].snapshots, 0).visualizationSpec = histories[q].originalSpec

C2_OriginalKept ==
    \A q \in QueryIds :
        /\ (~HasHistory(histories, q) /\ HasHistory(histories', q))
              => histories'[q].originalSpec = call'.spec
        /\ (HasHistory(histories, q) /\ HasHistory(histories', q))
              => histories'[q].originalSpec = histories[q].originalSpec

\* C2. Retention bound: every history holds at most maxSnapshots snapshots,
\* its snapshot 0 holds its originalSpec, and its originalSpec is the one it
\* was created with for as long as the history exists.
C2_RetentionBound == []C2_Bounded /\ [][C2_OriginalKept]_vars

\* an addSnapshot on a full history was trimmed; the original differs from
\* every later snapshot
C2_Witness ==
    /\ call.op = "addSnapshot"
    /\ call.length = maxSnapshots
    /\ call.index = maxSnapshots - 1
    /\ LET h == histories[call.queryId]
       IN  /\ Len(h.snapshots) = maxSnapshots
           /\ h.originalSpec = "A"
           /\ \A i \in 2..Len(h.snapshots) : h.snapshots[i].visualizationSpec = "B"

\* C3. For every history, 0 <= currentIndex < snapshots.length.
C3_IndexInRange ==
    \A q \in DOMAIN histories :
        /\ 0 <= histories[q].currentIndex
        /\ histories[q].currentIndex < Len(histories[q].snapshots)

\* the index after an addSnapshot that was trimmed
C3_Witness ==
    /\ call.op = "addSnapshot"
    /\ call.length = maxSnapshots
    /\ call.index = maxSnapshots - 1
    /\ histories[call.queryId].currentIndex = maxSnapshots - 1

C4_Step ==
    \A q \in QueryIds :
        /\ (HasHistory(histories, q) /\ resetToOriginal(q)) =>
              /\ ret' = histories[q].originalSpec
              /\ histories'[q].currentIndex = 0
              /\ At(histories'[q].snapshots, 0).visualizationSpec = ret'
              /\ histories'[q].snapshots = histories[q].snapshots
        /\ (~HasHistory(histories, q) /\ HasHistory(histories', q))
              => histories'[q].originalSpec = call'.spec
        /\ (HasHistory(histories, q) /\ HasHistory(histories', q))
              => histories'[q].originalSpec = histories[q].originalSpec

\* C4. Round trip: resetToOriginal(q) on an existing history returns the
\* history's originalSpec, which is the spec the history was created with,
\* and leaves currentIndex = 0, snapshot 0 holding that spec and the
\* snapshots as they were.
C4_ResetRoundTrip == [][C4_Step]_vars

\* a reset from the newest snapshot of a full history whose current spec
\* was not the original
C4_Witness ==
    /\ call.op = "resetToOriginal"
    /\ call.had
    /\ call.length = maxSnapshots
    /\ call.index = maxSnapshots - 1
    /\ ret = "A"
    /\ histories[call.queryId].snapshots[maxSnapshots].visualizationSpec = "B"
    /\ histories[call.queryId].currentIndex = 0

C5_Step ==
    \A q \in QueryIds, s \in Specs :
        initializeHistory(q, s) =>
            IF HasHistory(histories, q)
            THEN histories' = histories
            ELSE /\ DOMAIN histories' = DOMAIN histories \cup {q}
                 /\ \A k \in DOMAIN histories : histories'[k] = histories[k]
                 /\ histories'[q].originalSpec = s
                 /\ SpecOf(histories'[q].snapshots) = <<s>>
                 /\ histories'[q].currentIndex = 0

\* C5. initializeHistory(q, spec) changes nothing when q has a history, and
\* otherwise stores a history of the one snapshot spec with currentIndex 0.
C5_InitializeIdempotent == [][C5_Step]_vars

\* initializeHistory was called with another spec on a history with edits
C5_Witness ==
    /\ call.op = "initializeHistory"
    /\ call.had
    /\ call.length > 1
    /\ call.spec # histories[call.queryId].originalSpec
    /\ Len(histories[call.queryId].snapshots) = call.length

C6_Step ==
    \A q \in QueryIds :
        (HasHistory(histories, q) /\ undo(q)) =>
            IF histories[q].currentIndex > 0
            THEN /\ histories'[q].currentIndex = histories[q].currentIndex - 1
                 /\ ret' = At(histories[q].snapshots,
                              histories'[q].currentIndex).visualizationSpec
                 /\ histories'[q].snapshots = histories[q].snapshots
                 /\ histories'[q].originalSpec = histories[q].originalSpec
                 /\ \A k \in DOMAIN histories \ {q} : histories'[k] = histories[k]
                 /\ DOMAIN histories' = DOMAIN histories
                 /\ templates' = templates
            ELSE /\ ret' = Null
                 /\ histories' = histories
                 /\ templates' = templates

\* C6. undo(q) on a history with currentIndex > 0 moves currentIndex down by
\* one, returns the spec of the snapshot at the new index and leaves the
\* snapshots alone; with currentIndex = 0 it returns null and leaves the
\* store as it was.
C6_Undo == [][C6_Step]_vars

\* an undo stepped back to a snapshot whose spec is not the one left behind
C6_Witness ==
    /\ call.op = "undo"
    /\ call.had
    /\ call.index > 1
    /\ ret \in Specs
    /\ LET h == histories[call.queryId]
       IN  /\ h.currentIndex = call.index - 1
           /\ At(h.snapshots, h.currentIndex).visualizationSpec = ret
           /\ At(h.snapshots, call.index).visualizationSpec # ret

C7_Step ==
    \A q \in QueryIds :
        (HasHistory(histories, q) /\ redo(q)) =>
            IF histories[q].currentIndex < Len(histories[q].snapshots) - 1
            THEN /\ histories'[q].currentIndex = histories[q].currentIndex + 1
                 /\ ret' = At(histories[q].snapshots,
                              histories'[q].currentIndex).visualizationSpec
                 /\ histories'[q].snapshots = histories[q].snapshots
                 /\ histories'[q].originalSpec = histories[q].originalSpec
                 /\ \A k \in DOMAIN histories \ {q} : histories'[k] = histories[k]
                 /\ DOMAIN histories' = DOMAIN histories
                 /\ templates' = templates
            ELSE /\ ret' = Null
                 /\ histories' = histories
                 /\ templates' = templates

\* C7. redo(q) on a history with currentIndex < snapshots.length - 1 moves
\* currentIndex up by one, returns the spec of the snapshot at the new index
\* and leaves the snapshots alone; at the last index it returns null and
\* leaves the store as it was.
C7_Redo == [][C7_Step]_vars

\* a redo stepped forward to a snapshot whose spec is not the one left behind
C7_Witness ==
    /\ call.op = "redo"
    /\ call.had
    /\ call.index < call.length - 1
    /\ ret \in Specs
    /\ LET h == histories[call.queryId]
       IN  /\ h.currentIndex = call.index + 1
           /\ At(h.snapshots, h.currentIndex).visualizationSpec = ret
           /\ At(h.snapshots, call.index).visualizationSpec # ret

C8_Step ==
    \A q \in QueryIds, s \in Specs :
        (~HasHistory(histories, q) /\ addSnapshot(q, s, EditDescription)) =>
            /\ HasHistory(histories', q)
            /\ histories'[q].originalSpec = s
            /\ SpecOf(histories'[q].snapshots) = <<s>>
            /\ histories'[q].currentIndex = 0
            /\ resetToOriginalResult(histories', q) = s
            /\ \A k \in DOMAIN histories : histories'[k] = histories[k]

\* C8. addSnapshot(q, spec, d) on a queryId without a history creates the
\* history: originalSpec = spec, the one snapshot spec, currentIndex 0; a
\* resetToOriginal(q) then returns spec.
C8_AddCreates == [][C8_Step]_vars

\* addSnapshot was the call that created the history
C8_Witness ==
    /\ call.op = "addSnapshot"
    /\ ~call.had
    /\ call.spec = "B"
    /\ HasHistory(histories, call.queryId)
    /\ histories[call.queryId].originalSpec = "B"
    /\ Len(histories[call.queryId].snapshots) = 1

C9_Getters ==
    \A q \in QueryIds \ DOMAIN histories :
        /\ getOriginalSpec(histories, q) = Null
        /\ canUndo(histories, q) = FALSE
        /\ canRedo(histories, q) = FALSE
        /\ getCurrentIndex(histories, q) = 0
        /\ getTotalSnapshots(histories, q) = 0

C9_Step ==
    \A q \in QueryIds :
        (~HasHistory(histories, q) /\ (undo(q) \/ redo(q) \/ resetToOriginal(q))) =>
            /\ ret' = Null
            /\ histories' = histories
            /\ templates' = templates

\* C9. On a queryId without a history undo, redo and resetToOriginal return
\* null and leave histories and templates as they were; getOriginalSpec is
\* null, canUndo and canRedo are false, getCurrentIndex and
\* getTotalSnapshots are 0.
C9_UnknownQuery == []C9_Getters /\ [][C9_Step]_vars

\* a reset of a queryId without a history, next to a history with edits and
\* a list of templates
C9_Witness ==
    /\ call.op = "resetToOriginal"
    /\ ~call.had
    /\ ret = Null
    /\ ~HasHistory(histories, call.queryId)
    /\ \E k \in DOMAIN histories : histories[k].currentIndex > 0
    /\ Len(templates) > 0

----------------------------------------------------------------------------
(* Properties of the template list *)

\* the templates of t in order, without those whose id is id
Without(t, id) == SelectSeq(t, LAMBDA x : x.id # id)

C10_Bounded ==
    /\ Len(templates) <= maxTemplates
    /\ \A i, j \in 1..Len(templates) : i < j => templates[i].id < templates[j].id

C10_Step ==
    /\ (call'.op = "saveTemplate" /\ saveTemplate(call'.spec)) =>
          LET new == Template(nextTemplateId, call'.spec)
          IN  /\ ret' = new
              /\ templates'[Len(templates')] = new
              /\ IF Len(templates) < maxTemplates
                 THEN templates' = templates \o <<new>>
                 ELSE templates' = Tail(templates) \o <<new>>
    /\ (call'.op = "deleteTemplate" /\ deleteTemplate(call'.templateId)) =>
          LET id == call'.templateId
          IN  /\ templates' = Without(templates, id)
              /\ Len(templates') =
                    IF id \in TemplateIds(templates)
                    THEN Len(templates) - 1 ELSE Len(templates)

\* C10. The template list holds at most maxTemplates templates, in the order
\* they were saved; saveTemplate appends the new template and, when that
\* makes the list longer than maxTemplates, drops the oldest; deleteTemplate
\* (id) removes the template with that id and no other.
C10_TemplateRetention == []C10_Bounded /\ [][C10_Step]_vars

\* a saveTemplate on a full list evicted the oldest template
C10_Witness ==
    /\ call.op = "saveTemplate"
    /\ call.length = maxTemplates
    /\ Len(templates) = maxTemplates
    /\ templates[maxTemplates].id = call.templateId
    /\ templates[1].id > 1

\* the store after a template action has left the histories alone
C11_Step ==
    /\ (call'.op = "applyTemplate" /\ applyTemplate(call'.templateId)) =>
          /\ \/ \E i \in 1..Len(templates) :
                   /\ templates[i].id = call'.templateId
                   /\ ret' = templates[i].visualizationSpec
             \/ /\ \A i \in 1..Len(templates) : templates[i].id # call'.templateId
                /\ ret' = Null
          /\ histories' = histories
          /\ templates' = templates
    /\ (call'.op = "saveTemplate" /\ saveTemplate(call'.spec)) =>
          histories' = histories
    /\ (call'.op = "deleteTemplate" /\ deleteTemplate(call'.templateId)) =>
          histories' = histories

\* C11. Template operations never touch chart histories: applyTemplate(id)
\* returns the spec of the stored template with that id, or null when there
\* is none, and leaves histories and templates as they were; saveTemplate
\* and deleteTemplate leave histories as they were.
C11_TemplatesLeaveHistories == [][C11_Step]_vars

\* applyTemplate returned the spec of a template that is not the first,
\* with a history in the store
C11_Witness ==
    /\ call.op = "applyTemplate"
    /\ call.had
    /\ ret = "B"
    /\ templates[1].visualizationSpec = "A"
    /\ \E q \in DOMAIN histories : Len(histories[q].snapshots) > 1

----------------------------------------------------------------------------
(* Trimming *)

C20_Step ==
    \A q \in QueryIds, s \in Specs :
        (HasHistory(histories, q) /\ addSnapshot(q, s, EditDescription)) =>
            LET old == histories[q]
                new == histories'[q]
                pushed == SubSeq(old.snapshots, 1, old.currentIndex + 1)
                            \o <<Snapshot(s, EditDescription)>>
                n == Len(pushed)
            IN  n > maxSnapshots =>
                  /\ Len(new.snapshots) = maxSnapshots
                  /\ new.snapshots[1] = old.snapshots[1]
                  /\ \A i \in 2..maxSnapshots :
                        new.snapshots[i] = pushed[n - maxSnapshots + i]
                  /\ new.snapshots[maxSnapshots] = Snapshot(s, EditDescription)
                  /\ new.currentIndex = maxSnapshots - 1

\* C20. Trimming keeps the newest entries: an addSnapshot that makes the
\* list longer than maxSnapshots stores the original followed by the most
\* recent maxSnapshots - 1 snapshots in their order, and currentIndex points
\* at the snapshot just added.
C20_TrimKeepsNewest == [][C20_Step]_vars

\* a trimmed addSnapshot whose new snapshot alone holds spec B
C20_Witness ==
    /\ call.op = "addSnapshot"
    /\ call.length = maxSnapshots
    /\ call.index = maxSnapshots - 1
    /\ call.spec = "B"
    /\ LET h == histories[call.queryId]
       IN  /\ Len(h.snapshots) = maxSnapshots
           /\ h.snapshots[maxSnapshots].visualizationSpec = "B"
           /\ \A i \in 1..(maxSnapshots - 1) : h.snapshots[i].visualizationSpec = "A"

----------------------------------------------------------------------------
\* C12. After the response handler of a chart-edit request or of a follow-up
\* question has run with a response that carries a visualizationSpec, the
\* history of the query holds a snapshot with that spec at currentIndex.
C12_ChatSpecInHistory ==
    (call.op \in {"editChartSuccess", "followupSuccess"} /\ call.spec \in Specs) =>
        /\ HasHistory(histories, call.queryId)
        /\ LET h == histories[call.queryId]
           IN  At(h.snapshots, h.currentIndex).visualizationSpec = call.spec

----------------------------------------------------------------------------
(* Pure functions of the chart components.  A function is applied to an    *)
(* argument drawn in the initial state; the stores and the page stay idle. *)

Idle ==
    /\ histories = <<>>
    /\ templates = <<>>
    /\ nextTemplateId = 1
    /\ deleted = 0
    /\ call = NoCall
    /\ ret = Undefined
    /\ currentQuery = NoQuery
    /\ chats = {}
    /\ isModifyingChart = FALSE

\* the function named fn is applied to the drawn arguments: output is its result
Apply(fn, result) ==
    /\ input[1] = fn
    /\ output = NoValue
    /\ output' = <<"result", result>>
    /\ UNCHANGED <<storeVars, call, ret, pageVars, input>>

Applied(fn) == input[1] = fn /\ output # NoValue

----------------------------------------------------------------------------
(* validatePlotlyData: the whitelist of raw Plotly traces *)

\* entries of a raw plotlyData list explored per call
MaxTraces == 2

ALLOWED_TRACE_PROPS ==
    {"type", "x", "y", "z", "text", "marker", "line", "mode", "name",
     "hovertemplate", "hoverinfo", "textposition", "textfont", "textinfo",
     "fill", "fillcolor", "labels", "values", "colorscale", "showlegend",
     "legendgroup", "opacity", "orientation", "width", "base", "offset",
     "hole", "pull", "domain", "texttemplate", "insidetextorientation",
     "customdata", "ids", "error_x", "error_y", "connectgaps", "stackgroup"}

\* keys a raw trace is built from: two whitelisted ones the type guard reads
\* and one that is not whitelisted
SampleKeys == {"type", "x", "onclick"}

\* property values, by what typeof and Array.isArray say of them
SampleValues == {"string", "array"}

\* a raw entry: a JavaScript value with its own enumerable properties
RawObject(props) == [typeof |-> "object", isNull |-> FALSE, props |-> props]
RawNull == [typeof |-> "object", isNull |-> TRUE, props |-> <<>>]
RawString == [typeof |-> "string", isNull |-> FALSE, props |-> <<>>]

RawObjects ==
    {RawObject(f) : f \in UNION {[S -> SampleValues] : S \in SUBSET SampleKeys}}

RawEntries == RawObjects \cup {RawNull, RawString}

\* data: unknown[], or something that is not an array
PlotlyData(isArray, items) == [isArray |-> isArray, items |-> items]

RawData ==
    {PlotlyData(TRUE, items) : items \in UNION {[1..n -> RawEntries] : n \in 0..MaxTraces}}
        \cup {PlotlyData(FALSE, <<>>)}

\* trace.key of a property that may be absent
Prop(props, key) == IF key \in DOMAIN props THEN props[key] ELSE Undefined

isValidPlotlyTrace(obj) ==
    IF obj.typeof # "object" \/ obj.isNull
    THEN FALSE
    ELSE \/ Prop(obj.props, "type") = "string"
         \/ Prop(obj.props, "x") = "array"
         \/ Prop(obj.props, "y") = "array"
         \/ Prop(obj.props, "values") = "array"

\* data.filter(isValidPlotlyTrace), in order
RECURSIVE filterValid(_)
filterValid(items) ==
    IF items = <<>> THEN <<>>
    ELSE IF isValidPlotlyTrace(Head(items))
         THEN <<Head(items)>> \o filterValid(Tail(items))
         ELSE filterValid(Tail(items))

\* the map callback: copy the whitelisted own keys
validatedTraceCopyAll(trace) == trace.props
validatedTrace(trace) ==
    [key \in {k \in DOMAIN trace.props : k \in ALLOWED_TRACE_PROPS} |-> trace.props[key]]

validatePlotlyData(data) ==
    IF ~data.isArray THEN <<>>
    ELSE LET valid == filterValid(data.items)
         IN  [i \in 1..Len(valid) |-> validatedTrace(valid[i])]

callValidatePlotlyData ==
    Apply("validatePlotlyData", validatePlotlyData(input[2]))

InitValidatePlotlyData ==
    /\ Idle
    /\ input \in {<<"validatePlotlyData", data>> : data \in RawData}
    /\ output = NoValue

SpecValidatePlotlyData ==
    InitValidatePlotlyData /\ [][callValidatePlotlyData]_vars

\* the number of entries among the first i of items that pass the type guard
RECURSIVE ValidBefore(_, _)
ValidBefore(items, i) ==
    IF i = 0 THEN 0
    ELSE ValidBefore(items, i - 1) + (IF isValidPlotlyTrace(items[i]) THEN 1 ELSE 0)

\* C13. Every key of every trace returned by validatePlotlyData is in
\* ALLOWED_TRACE_PROPS: unknown keys never survive, and each returned trace
\* holds the whitelisted keys of the raw trace it came from with their
\* original values.
C13_WhitelistComplete ==
    Applied("validatePlotlyData") =>
        LET items == input[2].items
            traces == output[2]
        IN  /\ \A j \in DOMAIN traces : DOMAIN traces[j] \subseteq ALLOWED_TRACE_PROPS
            /\ Len(traces) = ValidBefore(items, Len(items))
            /\ \A i \in DOMAIN items :
                   isValidPlotlyTrace(items[i]) =>
                       LET trace == traces[ValidBefore(items, i)]
                           raw == items[i].props
                       IN  /\ DOMAIN trace = DOMAIN raw \cap ALLOWED_TRACE_PROPS
                           /\ \A key \in DOMAIN trace : trace[key] = raw[key]

\* a trace with an injected key came back without it, its type kept
C13_Witness ==
    /\ Applied("validatePlotlyData")
    /\ Len(input[2].items) = 2
    /\ ~isValidPlotlyTrace(input[2].items[1])
    /\ DOMAIN input[2].items[2].props = {"type", "onclick"}
    /\ Len(output[2]) = 1
    /\ DOMAIN output[2][1] = {"type"}
    /\ output[2][1]["type"] = "string"

----------------------------------------------------------------------------
(* validateVisualizationSpec: repair of the column references of a spec *)

\* columns of a result explored per call
MaxColumns == 3

\* a string is the sequence of its characters
Str(chars) == chars

\* String.prototype.toLowerCase, character by character
Uppercase ==
    <<"A", "B", "C", "D", "E", "F", "G", "H", "I", "J", "K", "L", "M",
      "N", "O", "P", "Q", "R", "S", "T", "U", "V", "W", "X", "Y", "Z">>
Lowercase ==
    <<"a", "b", "c", "d", "e", "f", "g", "h", "i", "j", "k", "l", "m",
      "n", "o", "p", "q", "r", "s", "t", "u", "v", "w", "x", "y", "z">>
LowerChar(c) ==
    IF \E i \in DOMAIN Uppercase : Uppercase[i] = c
    THEN Lowercase[CHOOSE i \in DOMAIN Uppercase : Uppercase[i] = c]
    ELSE c
toLowerCase(s) == [i \in 1..Len(s) |-> LowerChar(s[i])]

\* String.prototype.includes: sub occurs in s as a contiguous run
includes(s, sub) ==
    \E i \in 0..(Len(s) - Len(sub)) : SubSeq(s, i + 1, i + Len(sub)) = sub

\* column names of the results and column names a chat response refers to
ColumnNames == {Str(<<"a">>), Str(<<"A", "b">>), Str(<<"b">>)}
AxisNames == {Str(<<"a">>), Str(<<"A">>), Str(<<"A", "b">>), Str(<<"b", "a">>)}

\* results.columns: names are unique within a result
Distinct(seq) == \A i, j \in DOMAIN seq : seq[i] = seq[j] => i = j
ColumnLists ==
    {columns \in UNION {[1..n -> ColumnNames] : n \in 0..MaxColumns} : Distinct(columns)}

\* columns[i] of JavaScript, zero-based: undefined beyond the end
UndefinedColumn == Str(<<"undefined">>)
ColumnAt(columns, i) == IF i < Len(columns) THEN columns[i + 1] ELSE UndefinedColumn

Range(seq) == {seq[i] : i \in DOMAIN seq}

\* xAxis?: VisualizationAxis
Axis(column) == [defined |-> TRUE, column |-> column]
NoAxis == [defined |-> FALSE, column |-> Str(<<>>)]
Axes == {Axis(name) : name \in AxisNames} \cup {NoAxis}

\* title?: string
NoTitle == Str(<<"undefined">>)
Titles == {NoTitle, Str(<<>>), Str(<<"S", "a", "l", "e", "s">>)}
DefaultTitle ==
    Str(<<"D", "a", "t", "a", " ", "V", "i", "s", "u", "a", "l", "i", "z",
          "a", "t", "i", "o", "n">>)

VisualizationSpecs ==
    [chartType : {"bubble"}, title : Titles, xAxis : Axes, yAxis : Axes, zAxis : Axes]

\* columns.find(col => col.toLowerCase().includes(axis.column.toLowerCase()));
\* the empty sequence stands for undefined
RECURSIVE similarColumn(_, _)
similarColumn(columns, column) ==
    IF columns = <<>> THEN <<>>
    ELSE IF includes(toLowerCase(Head(columns)), toLowerCase(column))
         THEN <<Head(columns)>>
         ELSE similarColumn(Tail(columns), column)

\* a || b on column names: the empty string and undefined are falsy
OrElse(a, b) == IF a = Str(<<>>) \/ a = UndefinedColumn THEN b ELSE a

\* the repair of one axis; fallback is what is assigned when nothing is similar
repairAxis(axis, columns, fallback) ==
    IF axis.defined /\ axis.column \notin Range(columns)
    THEN LET similar == similarColumn(columns, axis.column)
         IN  IF similar # <<>> /\ similar[1] # Str(<<>>)
             THEN Axis(similar[1])
             ELSE Axis(fallback)
    ELSE axis

\* if (!enhancedSpec.title) enhancedSpec.title = 'Data Visualization'
titleOrDefaultKeepEmpty(title) == IF title = NoTitle THEN DefaultTitle ELSE title
titleOrDefault(title) ==
    IF title = NoTitle \/ title = Str(<<>>) THEN DefaultTitle ELSE title

\* the returned enhancedSpec
validateVisualizationSpec(spec, columns) ==
    [spec EXCEPT
        !.xAxis = repairAxis(spec.xAxis, columns, ColumnAt(columns, 0)),
        !.yAxis = repairAxis(spec.yAxis, columns,
                             OrElse(ColumnAt(columns, 1), ColumnAt(columns, 0))),
        !.title = titleOrDefault(spec.title)]

\* the argument after the call: { ...spec } copies the top level only, so
\* enhancedSpec.xAxis and enhancedSpec.yAxis are the argument's own axis
\* objects and a repair writes into them; the title is set on the copy
specAfterValidate(spec, columns) ==
    [spec EXCEPT
        !.xAxis = validateVisualizationSpec(spec, columns).xAxis,
        !.yAxis = validateVisualizationSpec(spec, columns).yAxis]

\* output is the returned spec followed by the argument as the call left it
callValidateVisualizationSpec ==
    /\ input[1] = "validateVisualizationSpec"
    /\ output = NoValue
    /\ output' = <<"result",
                   validateVisualizationSpec(input[2], input[3]),
                   specAfterValidate(input[2], input[3])>>
    /\ UNCHANGED <<storeVars, call, ret, pageVars, input>>

InitValidateSpec ==
    /\ Idle
    /\ input \in {<<"validateVisualizationSpec", spec, columns>> :
                      spec \in VisualizationSpecs, columns \in ColumnLists}
    /\ output = NoValue

SpecValidateSpec == InitValidateSpec /\ [][callValidateVisualizationSpec]_vars

\* the axes of a spec that are present
DefinedAxes(spec) == {axis \in {spec.xAxis, spec.yAxis, spec.zAxis} : axis.defined}

\* C14. For a result with at least one column, every axis column referenced
\* by the spec returned from validateVisualizationSpec is one of the result's
\* columns.
C14_AxisColumnsPresent ==
    (Applied("validateVisualizationSpec") /\ Len(input[3]) >= 1) =>
        \A axis \in DefinedAxes(output[2]) : axis.column \in Range(input[3])

\* every axis of the spec refers to a column of the result
axesExist(spec, columns) ==
    \A axis \in DefinedAxes(spec) : axis.column \in Range(columns)

\* C15 as stated. Validating a spec whose axis columns all exist returns a
\* spec equal to the input, and validating the output again returns it
\* unchanged.
C15_ValidUnchanged ==
    Applied("validateVisualizationSpec") =>
        /\ axesExist(input[2], input[3]) => output[2] = input[2]
        /\ validateVisualizationSpec(output[2], input[3]) = output[2]

\* C15. Validating a spec whose axis columns all exist leaves its axes and
\* every other field as they are, except that a missing or empty title
\* becomes 'Data Visualization'; validating the output of any validation
\* again returns it unchanged.
C15_ValidKeptUpToTitle ==
    Applied("validateVisualizationSpec") =>
        /\ axesExist(input[2], input[3]) =>
               /\ output[2].xAxis = input[2].xAxis
               /\ output[2].yAxis = input[2].yAxis
               /\ output[2].zAxis = input[2].zAxis
               /\ output[2].chartType = input[2].chartType
               /\ output[2].title =
                      (IF input[2].title \in {NoTitle, Str(<<>>)}
                       THEN DefaultTitle ELSE input[2].title)
        /\ validateVisualizationSpec(output[2], input[3]) = output[2]

\* a spec with valid axes and an empty title came back titled
C15_Witness ==
    /\ Applied("validateVisualizationSpec")
    /\ input[3] = <<Str(<<"a">>), Str(<<"A", "b">>)>>
    /\ input[2].xAxis = Axis(Str(<<"a">>))
    /\ input[2].yAxis = Axis(Str(<<"A", "b">>))
    /\ input[2].zAxis = NoAxis
    /\ input[2].title = Str(<<>>)
    /\ output[2] = [input[2] EXCEPT !.title = DefaultTitle]

----------------------------------------------------------------------------
(* The fallback recommendation: isNumeric, isTimeRelated, analyzeColumns,   *)
(* getCardinality, generateVisualizationSpec                                *)

\* rows of a result explored per call
MaxRows == 11

\* if (cardinality <= 10)
MaxBarCategories == 10

\* a cell of a row, by typeof; numbers of a JSON result are finite
NumberCell(n) == [typeof |-> "number", num |-> n, chars |-> Str(<<>>)]
StringCell(chars) == [typeof |-> "string", num |-> 0, chars |-> chars]
NullCell == [typeof |-> "object", num |-> 0, chars |-> Str(<<>>)]

Digits == <<"0", "1", "2", "3", "4", "5", "6", "7", "8", "9">>
IsDigit(c) == \E i \in DOMAIN Digits : Digits[i] = c
DigitValue(c) == (CHOOSE i \in DOMAIN Digits : Digits[i] = c) - 1
IsWordChar(c) ==
    \/ IsDigit(c)
    \/ c = "_"
    \/ \E i \in DOMAIN Lowercase : c = Lowercase[i] \/ c = Uppercase[i]

\* the digits a string starts with, and their value
RECURSIVE leadingDigits(_)
leadingDigits(chars) ==
    IF chars # <<>> /\ IsDigit(Head(chars))
    THEN <<Head(chars)>> \o leadingDigits(Tail(chars))
    ELSE <<>>

RECURSIVE decimalValue(_)
decimalValue(digits) ==
    IF digits = <<>> THEN 0
    ELSE 10 * decimalValue(SubSeq(digits, 1, Len(digits) - 1))
             + DigitValue(digits[Len(digits)])

RECURSIVE trimStart(_)
trimStart(chars) ==
    IF chars # <<>> /\ Head(chars) = " " THEN trimStart(Tail(chars)) ELSE chars

\* parseFloat on strings of letters, digits, blanks, "-", "+", "/": leading
\* blanks, an optional sign and the longest run of digits; NaN without a digit
NaN == [nan |-> TRUE, num |-> 0]
Finite(n) == [nan |-> FALSE, num |-> n]
parseFloat(chars) ==
    LET s == trimStart(chars)
        signed == s # <<>> /\ Head(s) \in {"-", "+"}
        body == IF signed THEN Tail(s) ELSE s
        digits == leadingDigits(body)
    IN  IF digits = <<>> THEN NaN
        ELSE IF signed /\ Head(s) = "-"
             THEN Finite(0 - decimalValue(digits))
             ELSE Finite(decimalValue(digits))

isNumeric(value) ==
    IF value.typeof = "number" THEN TRUE
    ELSE IF value.typeof = "string" THEN ~parseFloat(value.chars).nan
    ELSE FALSE

timeKeywords ==
    <<Str(<<"d", "a", "t", "e">>),
      Str(<<"t", "i", "m", "e">>),
      Str(<<"y", "e", "a", "r">>),
      Str(<<"m", "o", "n", "t", "h">>),
      Str(<<"d", "a", "y">>),
      Str(<<"q", "u", "a", "r", "t", "e", "r">>),
      Str(<<"w", "e", "e", "k">>),
      Str(<<"p", "e", "r", "i", "o", "d">>),
      Str(<<"t", "i", "m", "e", "s", "t", "a", "m", "p">>)>>

monthNames ==
    <<Str(<<"j", "a", "n", "u", "a", "r", "y">>),
      Str(<<"f", "e", "b", "r", "u", "a", "r", "y">>),
      Str(<<"m", "a", "r", "c", "h">>),
      Str(<<"a", "p", "r", "i", "l">>),
      Str(<<"m", "a", "y">>),
      Str(<<"j", "u", "n", "e">>),
      Str(<<"j", "u", "l", "y">>),
      Str(<<"a", "u", "g", "u", "s", "t">>),
      Str(<<"s", "e", "p", "t", "e", "m", "b", "e", "r">>),
      Str(<<"o", "c", "t", "o", "b", "e", "r">>),
      Str(<<"n", "o", "v", "e", "m", "b", "e", "r">>),
      Str(<<"d", "e", "c", "e", "m", "b", "e", "r">>)>>

\* /^\d{4}[-/]\d{2}[-/]\d{2}/
isoDatePattern(s) ==
    /\ Len(s) >= 10
    /\ \A i \in {1, 2, 3, 4, 6, 7, 9, 10} : IsDigit(s[i])
    /\ \A i \in {5, 8} : s[i] \in {"-", "/"}

\* /january|...|december/i
monthPattern(s) ==
    \E m \in DOMAIN monthNames : includes(toLowerCase(s), monthNames[m])

\* /q[1-4]/i
quarterPattern(s) ==
    \E i \in 1..(Len(s) - 1) :
        LowerChar(s[i]) = "q" /\ s[i + 1] \in {"1", "2", "3", "4"}

\* /\b(19|20)\d{2}\b/
yearPattern(s) ==
    \E i \in 1..(Len(s) - 3) :
        /\ <<s[i], s[i + 1]>> \in {<<"1", "9">>, <<"2", "0">>}
        /\ IsDigit(s[i + 2])
        /\ IsDigit(s[i + 3])
        /\ i = 1 \/ ~IsWordChar(s[i - 1])
        /\ i + 3 = Len(s) \/ ~IsWordChar(s[i + 4])

isTimeRelated(columnName, sampleValue) ==
    \/ \E k \in DOMAIN timeKeywords : includes(toLowerCase(columnName), timeKeywords[k])
    \/ /\ sampleValue.typeof = "string"
       /\ \/ isoDatePattern(sampleValue.chars)
          \/ monthPattern(sampleValue.chars)
          \/ quarterPattern(sampleValue.chars)
          \/ yearPattern(sampleValue.chars)

\* the class analyzeColumns gives the column at idx (one-based) from the first row
columnType(results, idx) ==
    LET value == results.rows[1][idx]
    IN  IF isTimeRelated(results.columns[idx], value) THEN "time"
        ELSE IF isNumeric(value) THEN "numeric"
        ELSE "categorical"

\* the columns of one class, in order
RECURSIVE columnsOfType(_, _, _)
columnsOfType(results, type, idx) ==
    IF idx > Len(results.columns) THEN <<>>
    ELSE (IF columnType(results, idx) = type THEN <<results.columns[idx]>> ELSE <<>>)
             \o columnsOfType(results, type, idx + 1)

analyzeColumns(results) ==
    IF Len(results.rows) = 0
    THEN [numericColumns |-> <<>>, categoricalColumns |-> <<>>, timeColumns |-> <<>>]
    ELSE [numericColumns |-> columnsOfType(results, "numeric", 1),
          categoricalColumns |-> columnsOfType(results, "categorical", 1),
          timeColumns |-> columnsOfType(results, "time", 1)]

\* columns.indexOf(columnName), one-based; 0 when absent
indexOf(columns, columnName) ==
    IF \E i \in DOMAIN columns : columns[i] = columnName
    THEN CHOOSE i \in DOMAIN columns :
             /\ columns[i] = columnName
             /\ \A j \in 1..(i - 1) : columns[j] # columnName
    ELSE 0

getCardinality(results, columnName) ==
    LET columnIndex == indexOf(results.columns, columnName)
    IN  IF columnIndex = 0 THEN 0
        ELSE Cardinality({results.rows[r][columnIndex] : r \in DOMAIN results.rows})

\* an axis of a generated spec
LabelledAxis(column, type) ==
    [defined |-> TRUE, column |-> column, label |-> column, type |-> type]
NoLabelledAxis ==
    [defined |-> FALSE, column |-> Str(<<>>), label |-> Str(<<>>), type |-> Undefined]

GeneratedSpec(chartType, title, xAxis, yAxis, reasoning) ==
    [chartType |-> chartType, title |-> title, xAxis |-> xAxis, yAxis |-> yAxis,
     reasoning |-> reasoning]

\* return null
NoSpec == GeneratedSpec(Null, NoTitle, NoLabelledAxis, NoLabelledAxis, Null)

\* Scenario 1
timeSeriesSpec(analysis) ==
    GeneratedSpec("line",
                  Str(<<"T", "r", "e", "n", "d", " ", "O", "v", "e", "r", " ",
                        "T", "i", "m", "e">>),
                  LabelledAxis(analysis.timeColumns[1], "time"),
                  LabelledAxis(analysis.numericColumns[1], "linear"),
                  "Line chart selected because data contains time-series information, ideal for showing trends.")

distributionTitle(column) ==
    Str(<<"D", "i", "s", "t", "r", "i", "b", "u", "t", "i", "o", "n", " ",
          "o", "f", " ">>) \o column

fewCategoriesStrict(cardinality) == cardinality < MaxBarCategories
fewCategories(cardinality) == cardinality <= MaxBarCategories

\* Scenario 2
categoricalSpec(results, analysis) ==
    LET catCol == analysis.categoricalColumns[1]
        numCol == analysis.numericColumns[1]
    IN  IF fewCategories(getCardinality(results, catCol))
        THEN GeneratedSpec("bar",
                           numCol \o Str(<<" ", "b", "y", " ">>) \o catCol,
                           LabelledAxis(catCol, "category"),
                           LabelledAxis(numCol, "linear"),
                           "Bar chart selected for comparing values across categories.")
        ELSE GeneratedSpec("histogram",
                           distributionTitle(numCol),
                           NoLabelledAxis,
                           LabelledAxis(numCol, "linear"),
                           "Histogram selected to show distribution with many categories.")

\* Scenario 3
scatterSpec(analysis) ==
    GeneratedSpec("scatter",
                  analysis.numericColumns[2] \o Str(<<" ", "v", "s", " ">>)
                      \o analysis.numericColumns[1],
                  LabelledAxis(analysis.numericColumns[1], "linear"),
                  LabelledAxis(analysis.numericColumns[2], "linear"),
                  "Scatter plot selected to show relationship between two numeric variables.")

\* Scenario 4
histogramSpec(analysis) ==
    GeneratedSpec("histogram",
                  distributionTitle(analysis.numericColumns[1]),
                  NoLabelledAxis,
                  LabelledAxis(analysis.numericColumns[1], "linear"),
                  "Histogram selected to show the distribution of values.")

\* Fallback: bar chart with the first two columns
generalSpec(results) ==
    GeneratedSpec("bar",
                  DefaultTitle,
                  LabelledAxis(results.columns[1],
                               IF columnType(results, 1) = "numeric"
                               THEN "linear" ELSE "category"),
                  LabelledAxis(results.columns[2], "linear"),
                  "Bar chart selected as a general-purpose visualization.")

generateVisualizationSpecBarFirst(results) ==
    IF Len(results.rows) = 0 \/ Len(results.columns) < 2 THEN NoSpec
    ELSE LET analysis == analyzeColumns(results)
         IN  IF Len(analysis.numericColumns) = 0 THEN NoSpec
             ELSE IF Len(analysis.categoricalColumns) > 0
                  THEN categoricalSpec(results, analysis)
             ELSE IF Len(analysis.timeColumns) > 0
                  THEN timeSeriesSpec(analysis)
             ELSE IF Len(analysis.numericColumns) >= 2 THEN scatterSpec(analysis)
             ELSE IF Len(analysis.numericColumns) = 1 THEN histogramSpec(analysis)
             ELSE generalSpec(results)
generateVisualizationSpec(results) ==
    IF Len(results.rows) = 0 \/ Len(results.columns) < 2 THEN NoSpec
    ELSE LET analysis == analyzeColumns(results)
         IN  IF Len(analysis.numericColumns) = 0 THEN NoSpec
             ELSE IF Len(analysis.timeColumns) > 0 /\ Len(analysis.numericColumns) > 0
                  THEN timeSeriesSpec(analysis)
             ELSE IF Len(analysis.categoricalColumns) > 0
                         /\ Len(analysis.numericColumns) > 0
                  THEN categoricalSpec(results, analysis)
             ELSE IF Len(analysis.numericColumns) >= 2 THEN scatterSpec(analysis)
             ELSE IF Len(analysis.numericColumns) = 1 THEN histogramSpec(analysis)
             ELSE generalSpec(results)

\* Results the recommendation is explored on.  A column is a name and the way
\* its cells are filled: row r of a "category" column holds the r-th of
\* `distinct` letters in rotation.
Column(name, fill) == [name |-> name, fill |-> fill]

SampleColumns ==
    {Column(Str(<<"D", "a", "y">>), "number"),
     Column(Str(<<"a", "t">>), "isoDate"),
     Column(Str(<<"q", "t", "y">>), "number"),
     Column(Str(<<"s", "u", "m">>), "digits"),
     Column(Str(<<"c", "i", "t", "y">>), "category"),
     Column(Str(<<"n", "o", "t", "e">>), "null")}

Schemas ==
    {schema \in UNION {[1..n -> SampleColumns] : n \in 0..MaxColumns} : Distinct(schema)}

CellOf(fill, r, distinct) ==
    IF fill = "number" THEN NumberCell(r)
    ELSE IF fill = "digits" THEN StringCell(Str(<<"4", "2">>))
    ELSE IF fill = "isoDate"
         THEN StringCell(Str(<<"2", "0", "2", "4", "-", "0", "1", "-", "1", "5">>))
    ELSE IF fill = "category"
         THEN StringCell(Str(<<Lowercase[((r - 1) % distinct) + 1]>>))
    ELSE NullCell

QueryResults(schema, rowCount, distinct) ==
    [columns |-> [c \in DOMAIN schema |-> schema[c].name],
     rows |-> [r \in 1..rowCount |->
                  [c \in DOMAIN schema |-> CellOf(schema[c].fill, r, distinct)]]]

SampleResults ==
    {QueryResults(schema, rowCount, distinct) :
        schema \in Schemas, rowCount \in 0..MaxRows, distinct \in 1..MaxRows}

callGenerateVisualizationSpec ==
    Apply("generateVisualizationSpec", generateVisualizationSpec(input[2]))

InitGenerateSpec ==
    /\ Idle
    /\ input \in {<<"generateVisualizationSpec", results>> : results \in SampleResults}
    /\ output = NoValue

SpecGenerateSpec == InitGenerateSpec /\ [][callGenerateVisualizationSpec]_vars

\* the positions of the columns the first row gives a class
ColumnsClassified(results, type) ==
    {idx \in DOMAIN results.columns : columnType(results, idx) = type}

First(positions) == CHOOSE idx \in positions : \A other \in positions : idx <= other

\* C16. For a non-empty result whose first row classifies at least one column
\* as temporal and at least one as numeric, generateVisualizationSpec returns a
\* line chart with x = the first temporal column and y = the first numeric
\* column, whatever categorical columns are present.
C16_TemporalFirst ==
    (/\ Applied("generateVisualizationSpec")
     /\ Len(input[2].rows) > 0
     /\ ColumnsClassified(input[2], "time") # {}
     /\ ColumnsClassified(input[2], "numeric") # {}) =>
        /\ output[2].chartType = "line"
        /\ output[2].xAxis.defined
        /\ output[2].xAxis.column =
               input[2].columns[First(ColumnsClassified(input[2], "time"))]
        /\ output[2].yAxis.defined
        /\ output[2].yAxis.column =
               input[2].columns[First(ColumnsClassified(input[2], "numeric"))]

\* a result that starts with a categorical column got a line chart
C16_Witness ==
    /\ Applied("generateVisualizationSpec")
    /\ Len(input[2].rows) > 0
    /\ input[2].columns = <<Str(<<"c", "i", "t", "y">>), Str(<<"q", "t", "y">>),
                            Str(<<"a", "t">>)>>
    /\ output[2].chartType = "line"
    /\ output[2].xAxis.column = Str(<<"a", "t">>)
    /\ output[2].yAxis.column = Str(<<"q", "t", "y">>)

\* the number of distinct cells in the column at idx
DistinctValues(results, idx) ==
    Cardinality({results.rows[r][idx] : r \in DOMAIN results.rows})

\* C17. For a result with no temporal column and at least one categorical and
\* one numeric column, the recommendation is a bar chart (x = first
\* categorical column, y = first numeric column) when the first categorical
\* column has at most 10 distinct values, and a histogram over the first
\* numeric column with no x axis when it has 11 or more.
C17_CardinalitySwitch ==
    (/\ Applied("generateVisualizationSpec")
     /\ Len(input[2].rows) > 0
     /\ ColumnsClassified(input[2], "time") = {}
     /\ ColumnsClassified(input[2], "categorical") # {}
     /\ ColumnsClassified(input[2], "numeric") # {}) =>
        LET cat == First(ColumnsClassified(input[2], "categorical"))
            num == First(ColumnsClassified(input[2], "numeric"))
        IN  /\ DistinctValues(input[2], cat) <= 10 =>
                   /\ output[2].chartType = "bar"
                   /\ output[2].xAxis.defined
                   /\ output[2].xAxis.column = input[2].columns[cat]
                   /\ output[2].yAxis.defined
                   /\ output[2].yAxis.column = input[2].columns[num]
            /\ DistinctValues(input[2], cat) >= 11 =>
                   /\ output[2].chartType = "histogram"
                   /\ ~output[2].xAxis.defined
                   /\ output[2].yAxis.defined
                   /\ output[2].yAxis.column = input[2].columns[num]

\* eleven cities gave a histogram
C17_Witness ==
    /\ Applied("generateVisualizationSpec")
    /\ input[2].columns = <<Str(<<"c", "i", "t", "y">>), Str(<<"q", "t", "y">>)>>
    /\ DistinctValues(input[2], 1) = 11
    /\ output[2].chartType = "histogram"
    /\ ~output[2].xAxis.defined
    /\ output[2].yAxis.column = Str(<<"q", "t", "y">>)

\* C18. For a non-empty result that has exactly one numeric column and no
\* categorical or temporal column, the recommendation is a histogram over that
\* column with a non-empty reasoning string.
C18_SingleNumericHistogram ==
    (/\ Applied("generateVisualizationSpec")
     /\ Len(input[2].rows) > 0
     /\ Cardinality(ColumnsClassified(input[2], "numeric")) = 1
     /\ ColumnsClassified(input[2], "categorical") = {}
     /\ ColumnsClassified(input[2], "time") = {}) =>
        /\ output[2].chartType = "histogram"
        /\ output[2].yAxis.defined
        /\ output[2].yAxis.column =
               input[2].columns[First(ColumnsClassified(input[2], "numeric"))]
        /\ output[2].reasoning \notin {Null, ""}

----------------------------------------------------------------------------
(* transformToPlotlyData, case 'heatmap': the pivot of the rows into a matrix *)

\* rows of a result explored per heatmap
MaxHeatmapRows == 3

\* getColumnIndex: case-insensitive findIndex, 0 when nothing matches
\* (zero-based, as in the code)
getColumnIndex(columns, columnName) ==
    IF \E i \in DOMAIN columns : toLowerCase(columns[i]) = toLowerCase(columnName)
    THEN (CHOOSE i \in DOMAIN columns :
              /\ toLowerCase(columns[i]) = toLowerCase(columnName)
              /\ \A j \in 1..(i - 1) : toLowerCase(columns[j]) # toLowerCase(columnName))
         - 1
    ELSE 0

\* spec.xAxis?.column: undefined without the axis
axisColumn(axis) == IF axis.defined THEN axis.column ELSE UndefinedColumn

\* getColumnData(columnName?)
getColumnData(results, columnName) ==
    IF columnName = UndefinedColumn \/ columnName = Str(<<>>) THEN <<>>
    ELSE [r \in DOMAIN results.rows |->
             results.rows[r][getColumnIndex(results.columns, columnName) + 1]]

\* [...new Set(values)]: the distinct values in order of first appearance
RECURSIVE unique(_)
unique(values) ==
    IF values = <<>> THEN <<>>
    ELSE LET before == unique(SubSeq(values, 1, Len(values) - 1))
             last == values[Len(values)]
         IN  IF \E i \in DOMAIN before : before[i] = last
             THEN before
             ELSE Append(before, last)

\* array.indexOf(value), zero-based; -1 when absent
arrayIndexOf(array, value) ==
    IF \E i \in DOMAIN array : array[i] = value
    THEN (CHOOSE i \in DOMAIN array : array[i] = value /\ \A j \in 1..(i - 1) : array[j] # value) - 1
    ELSE 0 - 1

\* String(value) of a cell that is not a number
StringOf(value) ==
    IF value.typeof = "string" THEN value.chars ELSE Str(<<"n", "u", "l", "l">>)

\* typeof zVal === 'number' ? zVal : parseFloat(String(zVal)) || 0
zNumberNoParse(zVal) == IF zVal.typeof = "number" THEN zVal.num ELSE 0
zNumber(zVal) ==
    IF zVal.typeof = "number" THEN zVal.num
    ELSE LET parsed == parseFloat(StringOf(zVal))
         IN  IF parsed.nan \/ parsed.num = 0 THEN 0 ELSE parsed.num

\* rows.forEach: the matrix after the first n rows
RECURSIVE filledMatrix(_, _, _, _, _)
filledMatrix(results, spec, uniqueX, uniqueY, n) ==
    IF n = 0
    THEN [i \in DOMAIN uniqueY |-> [j \in DOMAIN uniqueX |-> 0]]
    ELSE LET matrix == filledMatrix(results, spec, uniqueX, uniqueY, n - 1)
             columns == results.columns
             row == results.rows[n]
             xVal == row[getColumnIndex(columns,
                             OrElse(axisColumn(spec.xAxis), ColumnAt(columns, 0))) + 1]
             yVal == row[getColumnIndex(columns,
                             OrElse(axisColumn(spec.yAxis), ColumnAt(columns, 1))) + 1]
             zVal == row[getColumnIndex(columns,
                             OrElse(axisColumn(spec.zAxis), ColumnAt(columns, 2))) + 1]
             xIdx == arrayIndexOf(uniqueX, xVal)
             yIdx == arrayIndexOf(uniqueY, yVal)
         IN  IF xIdx >= 0 /\ yIdx >= 0
             THEN [matrix EXCEPT ![yIdx + 1][xIdx + 1] = zNumber(zVal)]
             ELSE matrix

\* what a call of transformToPlotlyData ends with
Returned(data) == [threw |-> FALSE, data |-> data]
ThrewTypeError == [threw |-> TRUE, data |-> <<>>]

\* columnName.toLowerCase() throws when the axis is absent and the default
\* column does not exist
defaultMissing(results, spec) ==
    \/ OrElse(axisColumn(spec.yAxis), ColumnAt(results.columns, 1)) = UndefinedColumn
    \/ OrElse(axisColumn(spec.zAxis), ColumnAt(results.columns, 2)) = UndefinedColumn

heatmapData(results, spec) ==
    IF Len(results.rows) = 0 \/ Len(results.columns) = 0 THEN Returned(<<>>)
    ELSE IF defaultMissing(results, spec) THEN ThrewTypeError
    ELSE LET uniqueX == unique(getColumnData(results, axisColumn(spec.xAxis)))
             uniqueY == unique(getColumnData(results, axisColumn(spec.yAxis)))
         IN  Returned(<<[type |-> "heatmap",
                         x |-> uniqueX,
                         y |-> uniqueY,
                         z |-> filledMatrix(results, spec, uniqueX, uniqueY,
                                            Len(results.rows)),
                         colorscale |-> "Blues"]>>)

\* the heatmap inputs: rows of an x label, a y label and a z cell
HeatmapLabels == {StringCell(Str(<<"a">>)), StringCell(Str(<<"b">>))}
HeatmapValues ==
    {NumberCell(5), StringCell(Str(<<"7", "p", "x">>)), StringCell(Str(<<"n", "/", "a">>))}
HeatmapRows ==
    {<<x, y, z>> : x \in HeatmapLabels, y \in HeatmapLabels, z \in HeatmapValues}

HeatmapColumns == <<Str(<<"x">>), Str(<<"y">>), Str(<<"z">>)>>

HeatmapResults ==
    {[columns |-> HeatmapColumns, rows |-> rows] :
        rows \in UNION {[1..n -> HeatmapRows] : n \in 0..MaxHeatmapRows}}
    \cup
    {[columns |-> SubSeq(HeatmapColumns, 1, 2), rows |-> <<<<x, y>>>>] :
        x \in HeatmapLabels, y \in HeatmapLabels}

HeatmapSpec(xAxis, yAxis, zAxis) ==
    [chartType |-> "heatmap", title |-> NoTitle,
     xAxis |-> xAxis, yAxis |-> yAxis, zAxis |-> zAxis]

HeatmapSpecs ==
    {HeatmapSpec(Axis(Str(<<"X">>)), Axis(Str(<<"y">>)), Axis(Str(<<"z">>))),
     HeatmapSpec(Axis(Str(<<"X">>)), Axis(Str(<<"y">>)), NoAxis),
     HeatmapSpec(NoAxis, Axis(Str(<<"y">>)), Axis(Str(<<"z">>)))}

callTransformToPlotlyData ==
    Apply("transformToPlotlyData", heatmapData(input[2], input[3]))

InitHeatmap ==
    /\ Idle
    /\ input \in {<<"transformToPlotlyData", results, spec>> :
                      results \in HeatmapResults, spec \in HeatmapSpecs}
    /\ output = NoValue

SpecHeatmap == InitHeatmap /\ [][callTransformToPlotlyData]_vars

\* the x, y and z read from the rows: the column of the axis, none without it
\* for x and y, the third column for z
XValues(results, spec) ==
    IF spec.xAxis.defined THEN [r \in DOMAIN results.rows |-> results.rows[r][1]] ELSE <<>>

YValues(results, spec) ==
    IF spec.yAxis.defined THEN [r \in DOMAIN results.rows |-> results.rows[r][2]] ELSE <<>>

\* the number a z cell stands for; 0 when it does not parse
NumericZ(cell) ==
    IF cell = NumberCell(5) THEN 5
    ELSE IF cell = StringCell(Str(<<"7", "p", "x">>)) THEN 7
    ELSE 0

\* labels lists exactly the distinct values, in order of first appearance
InOrderOfFirstAppearance(labels, values) ==
    /\ Distinct(labels)
    /\ Range(labels) = Range(values)
    /\ \A i, j \in DOMAIN labels :
           i < j => \E r \in DOMAIN values :
                        /\ values[r] = labels[i]
                        /\ \A s \in 1..r : values[s] # labels[j]

----------------------------------------------------------------------------
\* the column an absent axis column resolves to when the three steps are tried
\* in order: equal ignoring case, then substring ignoring case, then default
ResolvedInOrder(columns, column, default) ==
    LET equalIgnoringCase ==
            {i \in DOMAIN columns : toLowerCase(columns[i]) = toLowerCase(column)}
        bySubstring ==
            {i \in DOMAIN columns :
                 includes(toLowerCase(columns[i]), toLowerCase(column))}
    IN  IF equalIgnoringCase # {} THEN columns[First(equalIgnoringCase)]
        ELSE IF bySubstring # {} THEN columns[First(bySubstring)]
        ELSE default

\* C21. When an axis column named in the spec is not in the result's columns,
\* validation resolves it first to the column that equals it ignoring case,
\* only if there is none to the first column matching by case-insensitive
\* substring, and only if there is none to the positional default (first
\* column for x, second-or-first column for y).
C21_RepairOrder ==
    (Applied("validateVisualizationSpec") /\ Len(input[3]) >= 1) =>
        LET spec == input[2]
            columns == input[3]
        IN  /\ (spec.xAxis.defined /\ spec.xAxis.column \notin Range(columns)) =>
                   output[2].xAxis.column =
                       ResolvedInOrder(columns, spec.xAxis.column, columns[1])
            /\ (spec.yAxis.defined /\ spec.yAxis.column \notin Range(columns)) =>
                   output[2].yAxis.column =
                       ResolvedInOrder(columns, spec.yAxis.column,
                                       IF Len(columns) >= 2 THEN columns[2] ELSE columns[1])

----------------------------------------------------------------------------
(* generateFormattedTicks: custom y ticks for a human-readable numberFormat. *)
(* Tick values are sixths of integers, so a value is kept as the integer     *)
(* `sixths` with value = sixths / 6; the arithmetic is exact.                *)

\* values of a y series explored per call
MaxSeries == 3

\* const numTicks = 6
numTicks == 6

\* numberFormat?: string
NoFormat == Str(<<"undefined">>)
SampleFormats ==
    {NoFormat,
     Str(<<"b", "i", "l", "l", "i", "o", "n", "s">>),
     Str(<<"m", "i", "l", "l", "i", "o", "n", "s">>),
     Str(<<"T", "h", "o", "u", "s", "a", "n", "d", "s">>),
     Str(<<"p", "e", "r", "c", "e", "n", "t", "a", "g", "e">>),
     Str(<<"c", "u", "r", "r", "e", "n", "c", "y">>),
     Str(<<"C", "o", "m", "p", "a", "c", "t">>),
     Str(<<"p", "l", "a", "i", "n">>)}

\* NumberFormatConfig; the divisor is 1000^thousands
NumberFormatConfig(thousands, suffix, multiplier, prefix) ==
    [defined |-> TRUE, thousands |-> thousands, suffix |-> suffix,
     multiplier |-> multiplier, prefix |-> prefix]
NoConfig ==
    [defined |-> FALSE, thousands |-> 0, suffix |-> "", multiplier |-> 1, prefix |-> ""]

getNumberFormatConfig(format) ==
    IF format = NoFormat \/ format = Str(<<>>) THEN NoConfig
    ELSE LET formatLower == toLowerCase(format)
         IN  IF formatLower = Str(<<"b", "i", "l", "l", "i", "o", "n", "s">>)
             THEN NumberFormatConfig(3, "B", 1, "")
             ELSE IF formatLower = Str(<<"m", "i", "l", "l", "i", "o", "n", "s">>)
             THEN NumberFormatConfig(2, "M", 1, "")
             ELSE IF formatLower = Str(<<"t", "h", "o", "u", "s", "a", "n", "d", "s">>)
             THEN NumberFormatConfig(1, "K", 1, "")
             ELSE IF formatLower = Str(<<"p", "e", "r", "c", "e", "n", "t", "a", "g", "e">>)
             THEN NumberFormatConfig(0, "%", 100, "")
             ELSE IF formatLower = Str(<<"c", "u", "r", "r", "e", "n", "c", "y">>)
             THEN NumberFormatConfig(0, "", 1, "$")
             ELSE NoConfig

isCompactFormat(format) ==
    toLowerCase(format) = Str(<<"c", "o", "m", "p", "a", "c", "t">>)

\* floor(n / 1000^k) for n >= 0
RECURSIVE divThousands(_, _)
divThousands(n, k) == IF k = 0 THEN n ELSE divThousands(n \div 1000, k - 1)

Abs(n) == IF n < 0 THEN 0 - n ELSE n

\* (sixths / 6 / 1000^k).toFixed(0): the sign of the value and the magnitude
\* rounded half up
toFixed0(sixths, k) ==
    [negative |-> sixths < 0,
     digits |-> (divThousands(Abs(sixths), k) + 3) \div 6]

Label(prefix, fixed, suffix) == [prefix |-> prefix, number |-> fixed, suffix |-> suffix]

\* formatWithNumberFormat(value, format, 0) for the formats that reach it
formatWithNumberFormat(sixths, format) ==
    LET config == getNumberFormatConfig(format)
    IN  IF ~config.defined
        THEN IF Abs(sixths) \div 6 >= 1000 * 1000 * 1000
             THEN Label("", toFixed0(sixths, 3), "B")
             ELSE IF Abs(sixths) \div 6 >= 1000 * 1000
             THEN Label("", toFixed0(sixths, 2), "M")
             ELSE IF Abs(sixths) \div 6 >= 1000
             THEN Label("", toFixed0(sixths, 1), "K")
             ELSE Label("", toFixed0(sixths, 0), "")
        ELSE Label(config.prefix,
                   toFixed0(sixths * config.multiplier, config.thousands),
                   config.suffix)

\* dataValues.filter(v => !isNaN(v) && v !== null && v !== undefined)
RECURSIVE validValues(_)
validValues(dataValues) ==
    IF dataValues = <<>> THEN <<>>
    ELSE (IF Head(dataValues).nan THEN <<>> ELSE <<Head(dataValues).num>>)
             \o validValues(Tail(dataValues))

Min(S) == CHOOSE m \in S : \A n \in S : m <= n
Max(S) == CHOOSE m \in S : \A n \in S : m >= n

\* the result: null, or { tickvals, ticktext }
NoTicks == [defined |-> FALSE, tickvals |-> <<>>, ticktext |-> <<>>]

\* for (let i = 0; i <= numTicks; i++) tickValues.push(minVal + range * i / numTicks)
tickValues(minVal, range) ==
    [n \in 1..(numTicks + 1) |-> 6 * minVal + range * (n - 1)]

generateFormattedTicks(dataValues, numberFormat) ==
    IF numberFormat = NoFormat \/ numberFormat = Str(<<>>) THEN NoTicks
    ELSE IF ~getNumberFormatConfig(numberFormat).defined /\ ~isCompactFormat(numberFormat)
    THEN NoTicks
    ELSE LET valid == validValues(dataValues)
         IN  IF valid = <<>> THEN NoTicks
             ELSE LET minVal == Min(Range(valid))
                      maxVal == Max(Range(valid))
                      ticks == tickValues(minVal, maxVal - minVal)
                  IN  [defined |-> TRUE,
                       tickvals |-> ticks,
                       ticktext |-> [n \in DOMAIN ticks |->
                                        formatWithNumberFormat(ticks[n], numberFormat)]]

\* the y series handed over by the layout: numbers, NaN where a cell did not parse
SeriesValues == {NaN, Finite(0 - 3), Finite(0), Finite(9), Finite(4500)}
SampleSeries == UNION {[1..n -> SeriesValues] : n \in 0..MaxSeries}

callGenerateFormattedTicks ==
    Apply("generateFormattedTicks", generateFormattedTicks(input[2], input[3]))

InitTicks ==
    /\ Idle
    /\ input \in {<<"generateFormattedTicks", series, format>> :
                      series \in SampleSeries, format \in SampleFormats}
    /\ output = NoValue

SpecTicks == InitTicks /\ [][callGenerateFormattedTicks]_vars

\* the formats generateFormattedTicks recognises, in lower case
RecognisedFormats ==
    {Str(<<"b", "i", "l", "l", "i", "o", "n", "s">>),
     Str(<<"m", "i", "l", "l", "i", "o", "n", "s">>),
     Str(<<"t", "h", "o", "u", "s", "a", "n", "d", "s">>),
     Str(<<"p", "e", "r", "c", "e", "n", "t", "a", "g", "e">>),
     Str(<<"c", "u", "r", "r", "e", "n", "c", "y">>),
     Str(<<"c", "o", "m", "p", "a", "c", "t">>)}

NumericValues(series) == {series[i].num : i \in {j \in DOMAIN series : ~series[j].nan}}

\* C22. When the y axis has a recognised numberFormat and the y series has at
\* least one numeric value, generateFormattedTicks returns exactly 6 tick
\* values, evenly spaced, the first equal to the series minimum and the last
\* equal to the series maximum, with one formatted label per tick value.
C22_SixTicks ==
    (/\ Applied("generateFormattedTicks")
     /\ toLowerCase(input[3]) \in RecognisedFormats
     /\ NumericValues(input[2]) # {}) =>
        LET ticks == output[2].tickvals
        IN  /\ output[2].defined
            /\ Len(ticks) = 6
            /\ \A n \in 2..(Len(ticks) - 1) :
                   ticks[n + 1] - ticks[n] = ticks[n] - ticks[n - 1]
            /\ ticks[1] = 6 * Min(NumericValues(input[2]))
            /\ ticks[Len(ticks)] = 6 * Max(NumericValues(input[2]))
            /\ Len(output[2].ticktext) = Len(ticks)

----------------------------------------------------------------------------
(* generateLayout: the structured layout.  The explored specs carry no       *)
(* layout, font, label, range or annotation overrides, so those fields take  *)
(* their defaults and are left out of the record.                            *)

ChartTypes ==
    {Str(<<"b", "a", "r">>),
     Str(<<"P", "i", "e">>),
     Str(<<"h", "i", "s", "t", "o", "g", "r", "a", "m">>),
     Str(<<"3", "d", "-", "s", "c", "a", "t", "t", "e", "r">>),
     Str(<<"b", "u", "b", "b", "l", "e">>)}

\* the spec fields generateLayout reads
LayoutSpec(chartType, title, xAxis, yAxis, zAxis, numberFormat) ==
    [chartType |-> chartType, title |-> title, xAxis |-> xAxis, yAxis |-> yAxis,
     zAxis |-> zAxis, numberFormat |-> numberFormat]

LayoutSpecs ==
    {LayoutSpec(chartType, title, xAxis, Axis(Str(<<"y">>)), zAxis, numberFormat) :
        chartType \in ChartTypes,
        title \in {NoTitle, Str(<<"S", "a", "l", "e", "s">>)},
        xAxis \in {NoAxis, Axis(Str(<<"x">>))},
        zAxis \in {NoAxis, Axis(Str(<<"z">>))},
        numberFormat \in {NoFormat, Str(<<"T", "h", "o", "u", "s", "a", "n", "d", "s">>)}}

\* spec.xAxis?.label || spec.xAxis?.column || ''
axisTitle(axis) == OrElse(axisColumn(axis), Str(<<>>))

LayoutAxis(title, type, color, ticks) ==
    [defined |-> TRUE, title |-> title, type |-> type, color |-> color, ticks |-> ticks]
NoLayoutAxis ==
    [defined |-> FALSE, title |-> Str(<<>>), type |-> Undefined, color |-> Undefined,
     ticks |-> NoTicks]

\* !['pie', '3d-scatter'].includes(spec.chartType.toLowerCase())
hasAxes(chartType) ==
    toLowerCase(chartType) \notin
        {Str(<<"p", "i", "e">>),
         Str(<<"3", "d", "-", "s", "c", "a", "t", "t", "e", "r">>)}

generateLayout(spec, isDarkMode, yDataValues) ==
    LET bgColor == IF isDarkMode THEN "#1a1a1a" ELSE "#ffffff"
        textColor == IF isDarkMode THEN "#e5e5e5" ELSE "#333333"
        axes == hasAxes(spec.chartType)
        yAxisTicks ==
            IF spec.numberFormat # NoFormat /\ spec.numberFormat # Str(<<>>)
            THEN generateFormattedTicks(yDataValues, spec.numberFormat)
            ELSE NoTicks
    IN  [raw |-> FALSE,
         title |-> titleOrDefault(spec.title),
         paper_bgcolor |-> bgColor,
         plot_bgcolor |-> bgColor,
         fontColor |-> textColor,
         showlegend |->
             toLowerCase(spec.chartType) \notin
                 {Str(<<"p", "i", "e">>),
                  Str(<<"h", "i", "s", "t", "o", "g", "r", "a", "m">>)},
         xaxis |-> IF axes
                   THEN LayoutAxis(axisTitle(spec.xAxis), "category", textColor, NoTicks)
                   ELSE NoLayoutAxis,
         yaxis |-> IF axes
                   THEN LayoutAxis(axisTitle(spec.yAxis), "linear", textColor, yAxisTicks)
                   ELSE NoLayoutAxis,
         scene |-> IF axes /\ spec.zAxis.defined
                   THEN LayoutAxis(axisTitle(spec.zAxis), "linear", textColor, NoTicks)
                   ELSE NoLayoutAxis]

callGenerateLayout ==
    Apply("generateLayout", generateLayout(input[2], input[3], input[4]))

InitLayout ==
    /\ Idle
    /\ input \in {<<"generateLayout", spec, isDarkMode, yDataValues>> :
                      spec \in LayoutSpecs,
                      isDarkMode \in BOOLEAN,
                      yDataValues \in {<<>>, <<Finite(0), Finite(9)>>}}
    /\ output = NoValue

SpecLayout == InitLayout /\ [][callGenerateLayout]_vars

\* C23. Layout compilation emits a 3D scene block carrying the z-axis
\* configuration whenever the structured spec has a zAxis, for every chart
\* type, including 3d-scatter.
C23_SceneForZAxis ==
    (Applied("generateLayout") /\ input[2].zAxis.defined) =>
        /\ output[2].scene.defined
        /\ output[2].scene.title = input[2].zAxis.column

----------------------------------------------------------------------------
\* C24. After validateVisualizationSpec(spec, results) returns, the spec object
\* passed in, its nested xAxis and yAxis objects included, has the same column
\* names and title as before the call.
C24_InputNotMutated ==
    Applied("validateVisualizationSpec") =>
        /\ output[3].xAxis = input[2].xAxis
        /\ output[3].yAxis = input[2].yAxis
        /\ output[3].zAxis = input[2].zAxis
        /\ output[3].title = input[2].title

----------------------------------------------------------------------------
(* Properties of the Analytics page under overlapping requests *)

\* every chat request the page can have in flight
AllChats ==
    {Chat(kind, Query(q, s), o) :
        kind \in {"edit", "followup"}, q \in QueryIds, s \in OptionalSpecs,
        o \in BOOLEAN}

\* the chat request ends: one of its callbacks runs, or none when the
\* observer has let go of it
chatSettles(chat) ==
    \/ \E s \in OptionalSpecs : editChartSuccess(chat, s)
    \/ editChartError(chat)
    \/ \E s \in OptionalSpecs : followupSuccess(chat, s)
    \/ followupError(chat)
    \/ chatSettledUnobserved(chat)

\* the page where every chat request in flight ends sooner or later
SpecPageFair ==
    Init /\ [][NextPage]_vars /\ \A c \in AllChats : WF_vars(chatSettles(c))

\* C25. No stale overwrite: the response handler of a chart-edit or
\* follow-up chat request never replaces currentQuery by the query of an
\* earlier question; across such a step currentQuery.queryId stays that of
\* the most recently completed question.
C25_NoStaleOverwrite ==
    [][call'.op \in {"editChartSuccess", "followupSuccess"} =>
          currentQuery'.queryId = currentQuery.queryId]_vars

\* C26. Displayed spec matches history: whenever a history exists for
\* currentQuery.queryId, currentQuery.visualizationSpec is the spec of that
\* history's snapshot at currentIndex.
C26_DisplayedSpecInHistory ==
    (currentQuery.queryId # NoArg /\ HasHistory(histories, currentQuery.queryId)) =>
        LET h == histories[currentQuery.queryId]
        IN  currentQuery.visualizationSpec =
                At(h.snapshots, h.currentIndex).visualizationSpec

\* C27. Chart-modification flag liveness: when every chat request ends,
\* isModifyingChart set by a chart edit is eventually false again, also
\* when a follow-up or a new question is issued while the edit is pending.
C27_FlagEventuallyReset == isModifyingChart ~> ~isModifyingChart

----------------------------------------------------------------------------
(* Properties of a store with several histories *)

\* the actions that take a queryId
HistoryActions ==
    {"initializeHistory", "addSnapshot", "undo", "redo", "resetToOriginal",
     "clearHistory"}

\* a history action on call'.queryId has left the other histories and the
\* templates alone
C28_Step ==
    call'.op \in HistoryActions =>
        /\ templates' = templates
        /\ \A p \in QueryIds \ {call'.queryId} :
              /\ HasHistory(histories', p) = HasHistory(histories, p)
              /\ HasHistory(histories, p) => histories'[p] = histories[p]

\* C28. Per-query isolation: initializeHistory, addSnapshot, undo, redo,
\* resetToOriginal and clearHistory applied to queryId q leave the history
\* (originalSpec, snapshots, currentIndex) of every other queryId and the
\* template list unchanged.
C28_PerQueryIsolation == [][C28_Step]_vars

\* addSnapshot has pushed onto the history of q2 while the store holds the
\* edited history of q1 and templates
C28_Witness ==
    /\ call.op = "addSnapshot"
    /\ call.queryId = "q2"
    /\ call.had
    /\ HasHistory(histories, "q1")
    /\ Len(histories["q1"].snapshots) = 2
    /\ histories["q1"].currentIndex = 1
    /\ Len(templates) > 0

\* C29. Undo and redo are inverses: in every reachable store, for a history
\* with currentIndex > 0, undo followed by redo gives back the same history
\* (currentIndex and snapshots) and the redo returns the spec that was
\* current before the undo; for a history with currentIndex < length - 1,
\* redo followed by undo gives back the same history and the undo returns
\* the spec that was current before the redo.
C29_UndoRedoInverse ==
    \A q \in DOMAIN histories :
        LET h == histories[q]
            current == At(h.snapshots, h.currentIndex).visualizationSpec
        IN  /\ h.currentIndex > 0 =>
                  /\ redoState(undoState(histories, q), q) = histories
                  /\ redoResult(undoState(histories, q), q) = current
            /\ h.currentIndex < Len(h.snapshots) - 1 =>
                  /\ undoState(redoState(histories, q), q) = histories
                  /\ undoResult(redoState(histories, q), q) = current

\* a redo has brought a history of three snapshots back from the middle to
\* its last snapshot, where an undo had left it, beside another history
C29_Witness ==
    /\ call.op = "redo"
    /\ call.index = 1
    /\ call.length = 3
    /\ histories[call.queryId].currentIndex = 2
    /\ Cardinality(DOMAIN histories) = 2

----------------------------------------------------------------------------
(* PlotlyChart: the chartData and layout memos of one render.  The explored  *)
(* specs are heatmaps, so the structured traces are those of the heatmap     *)
(* branch of transformToPlotlyData.                                          *)

\* visualizationSpec.plotlyData?: a raw list, or absent
Present(value) == [defined |-> TRUE, value |-> value]
NoPlotlyData == [defined |-> FALSE, value |-> PlotlyData(TRUE, <<>>)]

\* Record<string, unknown>: the keys of a raw layout the merge reads
PlotlyLayout(paper_bgcolor, plot_bgcolor, fontColor) ==
    [paper_bgcolor |-> paper_bgcolor, plot_bgcolor |-> plot_bgcolor,
     fontColor |-> fontColor]
NoPlotlyLayout ==
    [defined |-> FALSE, value |-> PlotlyLayout(Undefined, Undefined, Undefined)]

\* the spec fields the two memos read
ChartSpec(structured, plotlyData, plotlyLayout) ==
    [chartType |-> structured.chartType, title |-> structured.title,
     xAxis |-> structured.xAxis, yAxis |-> structured.yAxis,
     zAxis |-> structured.zAxis, numberFormat |-> structured.numberFormat,
     plotlyData |-> plotlyData, plotlyLayout |-> plotlyLayout]

\* traces of one render: whether they are the validated raw ones
ChartData(raw, traces) == [raw |-> raw, traces |-> traces]

\* const chartData = useMemo(...)
chartData(results, spec) ==
    LET data == spec.plotlyData.value
        validatedData == validatePlotlyData(data)
    IN  IF spec.plotlyData.defined /\ data.isArray /\ Len(data.items) > 0
           /\ Len(validatedData) > 0
        THEN ChartData(TRUE, validatedData)
        ELSE LET transformed == heatmapData(results, spec)
             IN  IF transformed.threw
                 THEN ChartData(FALSE, <<>>)
                 ELSE ChartData(FALSE, transformed.data)

\* results.columns.findIndex(col => col.toLowerCase() === yColumnName.toLowerCase()) >= 0
hasColumn(columns, columnName) ==
    \E i \in DOMAIN columns : toLowerCase(columns[i]) = toLowerCase(columnName)

\* typeof val === 'number' ? val : parseFloat(String(val))
cellNumber(val) ==
    IF val.typeof = "number" THEN Finite(val.num) ELSE parseFloat(StringOf(val))

\* yDataValues of the layout memo; generateLayout makes no ticks from none
yDataValuesOf(results, spec) ==
    LET yColumnName == axisColumn(spec.yAxis)
    IN  IF yColumnName # UndefinedColumn /\ yColumnName # Str(<<>>)
           /\ hasColumn(results.columns, yColumnName)
        THEN LET cells == getColumnData(results, yColumnName)
             IN  [r \in DOMAIN cells |-> cellNumber(cells[r])]
        ELSE <<>>

\* rawLayout.paper_bgcolor || bgColor
orColor(value, color) == IF value = Undefined THEN color ELSE value

\* the raw branch of the layout memo: { ...rawLayout, paper_bgcolor,
\* plot_bgcolor, font }
mergedRawLayout(rawLayout, isDarkMode) ==
    LET bgColor == IF isDarkMode THEN "#1a1a1a" ELSE "#ffffff"
        textColor == IF isDarkMode THEN "#e5e5e5" ELSE "#333333"
    IN  [raw |-> TRUE,
         paper_bgcolor |-> orColor(rawLayout.paper_bgcolor, bgColor),
         plot_bgcolor |-> orColor(rawLayout.plot_bgcolor, bgColor),
         fontColor |-> orColor(rawLayout.fontColor, textColor)]

\* const layout = useMemo(...)
layout(results, spec, isDarkMode) ==
    IF spec.plotlyLayout.defined
    THEN mergedRawLayout(spec.plotlyLayout.value, isDarkMode)
    ELSE generateLayout(spec, isDarkMode, yDataValuesOf(results, spec))

\* raw lists: empty, one entry that is no trace, one trace, and a trace with
\* a key outside the whitelist after an entry that is no trace
SamplePlotlyData ==
    {NoPlotlyData,
     Present(PlotlyData(TRUE, <<>>)),
     Present(PlotlyData(TRUE, <<RawString>>)),
     Present(PlotlyData(TRUE, <<RawObject([type |-> "string"])>>)),
     Present(PlotlyData(TRUE, <<RawNull, RawObject([x |-> "array", onclick |-> "string"])>>))}

SamplePlotlyLayouts ==
    {NoPlotlyLayout,
     Present(PlotlyLayout(Undefined, Undefined, Undefined)),
     Present(PlotlyLayout("#000000", Undefined, "#ff0000"))}

ChartSpecs ==
    {ChartSpec(LayoutSpec(Str(<<"h", "e", "a", "t", "m", "a", "p">>), NoTitle,
                          Axis(Str(<<"X">>)), Axis(Str(<<"y">>)), zAxis, numberFormat),
               plotlyData, plotlyLayout) :
        zAxis \in {NoAxis, Axis(Str(<<"z">>))},
        numberFormat \in {NoFormat, Str(<<"T", "h", "o", "u", "s", "a", "n", "d", "s">>)},
        plotlyData \in SamplePlotlyData,
        plotlyLayout \in SamplePlotlyLayouts}

ChartResults == {results \in HeatmapResults : Len(results.rows) <= 1}

\* one render of PlotlyChart: both memos are computed
renderPlotlyChart ==
    /\ input[1] = "PlotlyChart"
    /\ output = NoValue
    /\ output' = <<"result", chartData(input[2], input[3]),
                   layout(input[2], input[3], input[4])>>
    /\ UNCHANGED <<storeVars, call, ret, pageVars, input>>

InitPlotlyChart ==
    /\ Idle
    /\ input \in {<<"PlotlyChart", results, spec, isDarkMode>> :
                      results \in ChartResults, spec \in ChartSpecs,
                      isDarkMode \in BOOLEAN}
    /\ output = NoValue

SpecPlotlyChart == InitPlotlyChart /\ [][renderPlotlyChart]_vars

\* C30. Traces and layout are compiled in the same mode: the rendered layout
\* is the raw plotlyLayout with the theme colours merged only when the
\* rendered traces are the validated raw plotlyData traces; when the traces
\* come from the structured transformation, so does the layout.  (The chart
\* is rendered when the result has rows.)
C30_SameMode ==
    (Applied("PlotlyChart") /\ Len(input[2].rows) > 0) =>
        (output[3].raw => output[2].raw)

====
